---- MODULE Spec2Model ----
(***************************************************************************)
(* Settlement pipeline of the mining pool.                                 *)
(*                                                                         *)
(* Part A: PayoutManager / MemoryPayoutStorage  (bitcoin/payout-manager,   *)
(*         src/unnamed/part_004) with the BitcoinNode calls it makes.      *)
(* Part B: PayoutProcessor (src/server/payoutProcessor.ts), the scheduled  *)
(*         and manual payout path of the admin layer.                      *)
(*                                                                         *)
(* Every `await` of the TypeScript code is a point where other callbacks   *)
(* may run, so each action below is the code between two awaits: it        *)
(* resumes after one await and runs up to (and including the synchronous   *)
(* start of) the next awaited call.                                        *)
(***************************************************************************)
EXTENDS Integers, Sequences, FiniteSets, TLC

\* ------------------------------------------------------------------ bounds
MaxPayouts == 3        \* payouts ever stored by the PayoutManager
MaxTime == 0           \* Date.now() ranges over 0..MaxTime
MaxCalls == 2          \* processPayouts calls in flight at one time
RandSpace == 2         \* Math.floor(Math.random() * 1000000) ranges over 0..RandSpace-1
MaxTxs == 2            \* transactions the node broadcasts before it only fails
MaxCreating == 1       \* createPayout calls suspended at their await at one time
MaxCount == 2          \* event counters saturate here (2 stands for "more than once")
MaxAmount == 2         \* amounts asked of createPayout range over 1..MaxAmount

\* ------------------------------------------------------- program constants
minPayout == 2             \* PayoutManagerConfig.minPayout (0.001 BTC, in units of 0.0005 BTC)
maxPayoutsPerBatch == 2    \* PayoutManagerConfig.maxPayoutsPerBatch (50 in the default config)

Users == {"uA", "uB"}      \* userId / wallet address receiving a payout
Amounts == 1..MaxAmount
Callers == 1..MaxCalls     \* the processPayouts calls in flight (timer callback, initial call, any other caller)
Reasons == {"create", "send"}    \* which node call threw: createRawTransaction, signAndSendRawTransaction

PENDING == "pending"
PROCESSING == "processing"
COMPLETED == "completed"
FAILED == "failed"
PayoutStatus == {PENDING, PROCESSING, COMPLETED, FAILED}

NoTx == 0
NoErr == "none"

VARIABLES
  payouts,       \* MemoryPayoutStorage.payouts: the array of Payout objects
  isProcessing,  \* PayoutManager.isProcessing
  pc,            \* per caller: the await its processPayouts call is suspended at
  run,           \* per caller: the locals of its processPayouts / processBatch call
  creating,      \* createPayout calls not yet settled, with their arguments: idx > 0 is
                 \* suspended at `await storage.savePayout` with payouts[idx] stored,
                 \* idx = 0 has thrown at the threshold
  emitted,       \* per stored payout object: events emitted with it as payload
  txs            \* transactions the node has broadcast

pmVars == <<payouts, isProcessing, pc, run, creating,
            emitted, txs>>

VARIABLES
  ppIsProcessing,  \* PayoutProcessor.isProcessing
  ppPc,            \* the processAllPendingPayouts call: the await it is suspended at
  ppSkipped,       \* a processAllPendingPayouts call has returned at the guard, not yet delivered
  task,            \* per task (scheduled or manual, per user): pc and locals of its
                   \* manualPayout / processUserPayout / calculateUnpaidBalance call
  hashCredit,      \* per user: estimatedReward of the mining stats of the last 24 hours
  earned,          \* per user: estimatedReward of all mining stats ever recorded
  dbPayouts,       \* the payouts table (storage.createPayout / getPayouts / updatePayoutStatus)
  sent,            \* transactions sent through cryptoClient.sendTransaction
  timers           \* payout ids whose 5 s status-check timer is pending

ppVars == <<ppIsProcessing, ppPc, ppSkipped, task, hashCredit, earned, dbPayouts, sent, timers>>

VARIABLES
  conn,                  \* the StratumClient objects, per connection slot (a closed slot holds none)
  clients,               \* StratumServer.clients: Map clientId -> StratumClient, in insertion order
  jobId,                 \* StratumServer.jobId
  currentBlockTemplate,  \* StratumServer.currentBlockTemplate
  polls,                 \* getBlockTemplate calls of the poller not yet settled
  blockSubmits,          \* bitcoinNode.submitBlock calls not yet settled
  shares,                \* MemoryShareStorage.shares: the ShareLedger
  wire,                  \* the messages the last step wrote to sockets, in order
  events,                \* the events the last step emitted, in order
  last                   \* the callback the last step ran: which, on which connection, with which job reference

stVars == <<conn, clients, jobId, currentBlockTemplate, polls, blockSubmits, shares, wire, events, last>>

VARIABLES
  difficulty,    \* StratumServer.difficulty
  diffPolls      \* getDifficulty calls of the second timer not yet settled

plVars == <<difficulty, diffPolls>>

VARIABLES
  now,           \* the clock new Date() reads, in units of 10 minutes
  calls,         \* the processShare calls not yet settled: the await each is suspended at, its locals
  handled        \* the Shares in the order processShare was called with them

spVars == <<now, calls, handled>>

VARIABLES
  stream,        \* the bytes the socket's 'data' events have delivered, from the first on
  buffer,        \* StratumClient.buffer
  handledLines   \* the messages handleMessage was called with, in order

lrVars == <<stream, buffer, handledLines>>

VARIABLES
  tip,           \* the node's best block: the previousblockhash of a template it builds now
  issued,        \* how many getBlockTemplate calls the poll timer has made
  pending,       \* the calls not yet settled: their number in the order of issue, the tip at issue
  appliedSeq     \* the number of the call whose template is currentBlockTemplate

tpVars == <<tip, issued, pending, appliedSeq>>

vars == <<pmVars, ppVars, stVars, plVars, spVars, lrVars, tpVars>>

\* ---------------------------------------------------------------- helpers
RECURSIVE SumSeq(_)
SumSeq(s) == IF s = <<>> THEN 0 ELSE Head(s) + SumSeq(Tail(s))

RECURSIVE SumFun(_, _)
SumFun(f, S) ==
  IF S = {} THEN 0
  ELSE LET x == CHOOSE y \in S : TRUE IN f[x] + SumFun(f, S \ {x})

RECURSIVE Flatten(_)
Flatten(ss) == IF ss = <<>> THEN <<>> ELSE Head(ss) \o Flatten(Tail(ss))

Range(s) == {s[i] : i \in 1..Len(s)}

\* a counter of emitted events, saturating at MaxCount
Bump(n) == IF n < MaxCount THEN n + 1 ELSE n

\* ------------------------------------------------- MemoryPayoutStorage
\* payouts.find(p => p.id === id): the first object of the array with that id
FindPayout(ps, id) ==
  CHOOSE i \in 1..Len(ps) : ps[i].id = id /\ \A j \in 1..(i-1) : ps[j].id # id

\* mutant: a payout is never written as failed
UpdatePayoutStatus_NeverFailed(ps, id, status, transactionId) ==
  LET i == FindPayout(ps, id) IN
  [ps EXCEPT ![i] = [@ EXCEPT
       !.status = IF status = FAILED THEN @ ELSE status,
       !.transactionId = IF transactionId # NoTx THEN transactionId ELSE @]]

\* MemoryPayoutStorage.updatePayoutStatus
UpdatePayoutStatus(ps, id, status, transactionId) ==
  LET i == FindPayout(ps, id) IN
  [ps EXCEPT ![i] = [@ EXCEPT
       !.status = status,
       !.transactionId = IF transactionId # NoTx THEN transactionId ELSE @]]

\* payouts.filter(p => p.status === PENDING), as the objects' positions in the array
RECURSIVE PendingFrom(_, _)
PendingFrom(ps, i) ==
  IF i > Len(ps) THEN <<>>
  ELSE (IF ps[i].status = PENDING THEN <<i>> ELSE <<>>) \o PendingFrom(ps, i + 1)

GetPendingPayouts(ps) == PendingFrom(ps, 1)

\* ------------------------------------------------------- PayoutManager
GeneratePayoutId(t, r) == <<t, r>>

\* mutant: the threshold test off by one
BelowMinimum_OffByOne(amount) == amount < minPayout - 1

BelowMinimum(amount) == amount < minPayout

\* mutant: the guard is never seen taken
GuardTaken_Never == FALSE

GuardTaken == isProcessing

\* mutant: the run ends with the guard still held
GuardAtEnd_Held == TRUE

\* finally { this.isProcessing = false } of processPayouts, and the same
\* assignment before its early return 0
GuardAtEnd == FALSE

\* A trigger is a timer or request callback: Node runs it only after the promise
\* jobs of the calls that have already returned, so no processPayouts call is
\* entered while the return of another is still being delivered.
TriggerMayFire(c) ==
  /\ \A d \in Callers : pc[d] # "returned"
  /\ \A d \in Callers : d < c => pc[d] # "idle"    \* calls are numbered as they come

\* the batching loop of processPayouts: push, flush at maxPayoutsPerBatch, flush the rest
RECURSIVE SplitLoop(_, _, _)
SplitLoop(rest, currentBatch, batches) ==
  IF rest = <<>>
  THEN (IF Len(currentBatch) > 0 THEN Append(batches, currentBatch) ELSE batches)
  ELSE LET cb == Append(currentBatch, Head(rest)) IN
       IF Len(cb) >= maxPayoutsPerBatch
       THEN SplitLoop(Tail(rest), <<>>, Append(batches, cb))
       ELSE SplitLoop(Tail(rest), cb, batches)

\* mutant: everything pending goes into one batch
SplitBatches_OneBatch(pendingPayouts) == <<pendingPayouts>>

SplitBatches(pendingPayouts) == SplitLoop(pendingPayouts, <<>>, <<>>)

\* outputs[payout.userId] = payout.amount, for the payouts of the batch in order
RECURSIVE BuildOutputs(_, _, _)
BuildOutputs(ps, batch, outputs) ==
  IF batch = <<>> THEN outputs
  ELSE LET p == ps[Head(batch)]
           o == [u \in (DOMAIN outputs) \cup {p.userId} |->
                    IF u = p.userId THEN p.amount ELSE outputs[u]]
       IN BuildOutputs(ps, Tail(batch), o)

EmptyOutputs == [u \in {} |-> 0]

IdleRun == [pending |-> <<>>, batches |-> <<>>, bi |-> 0, k |-> 0,
            outputs |-> EmptyOutputs, txid |-> NoTx, err |-> NoErr,
            result |-> 0, processedCount |-> 0, snapLen |-> 0,
            skipped |-> FALSE, ret |-> 0]

Batch(c) == run[c].batches[run[c].bi]

InitPM ==
  /\ payouts = <<>>
  /\ isProcessing = FALSE
  /\ pc = [c \in Callers |-> "idle"]
  /\ run = [c \in Callers |-> IdleRun]
  /\ creating = {}
  /\ emitted = <<>>
  /\ txs = <<>>

\* createPayout(userId, amount) up to `await this.storage.savePayout(payout)`;
\* t is what Date.now() reads and r what Math.random() draws. The ids are only
\* ever compared for equality, and whatever ids equal each other with a free t
\* also do with a clock that never runs backwards (all calls in one millisecond).
CreatePayout(userId, amount, t, r) ==
  /\ Len(payouts) < MaxPayouts
  /\ Cardinality(creating) < MaxCreating
  /\ IF BelowMinimum(amount)
     THEN /\ creating' = creating \cup {[userId |-> userId, amount |-> amount, idx |-> 0]}
          /\ UNCHANGED <<payouts, emitted>>
     ELSE /\ payouts' = Append(payouts,
                 [id |-> GeneratePayoutId(t, r), userId |-> userId, amount |-> amount,
                  status |-> PENDING, transactionId |-> NoTx])
          /\ emitted' = Append(emitted,
                 [created |-> 0, completed |-> 0, failed |-> 0, errors |-> {}, txids |-> {}])
          /\ creating' = creating \cup
                 {[userId |-> userId, amount |-> amount, idx |-> Len(payouts) + 1]}
  /\ UNCHANGED <<isProcessing, pc, run, txs, ppVars, stVars, plVars, spVars, lrVars, tpVars>>

\* createPayout after the await: this.emit('payout:created', payout); return payout
CreatePayoutEmit(call) ==
  /\ call \in creating
  /\ call.idx > 0
  /\ creating' = creating \ {call}
  /\ emitted' = [emitted EXCEPT ![call.idx].created = Bump(@)]
  /\ UNCHANGED <<payouts, isProcessing, pc, run, txs, ppVars, stVars, plVars, spVars, lrVars, tpVars>>

\* createPayout threw: the rejection reaches the caller
CreatePayoutThrown(call) ==
  /\ call \in creating
  /\ call.idx = 0
  /\ creating' = creating \ {call}
  /\ UNCHANGED <<payouts, isProcessing, pc, run, emitted, txs, ppVars, stVars, plVars, spVars, lrVars, tpVars>>

\* processPayouts() entered while isProcessing: log and return 0
ProcessPayoutsSkip(c) ==
  /\ pc[c] = "idle"
  /\ TriggerMayFire(c)
  /\ GuardTaken
  /\ pc' = [pc EXCEPT ![c] = "returned"]
  /\ run' = [run EXCEPT ![c] = [IdleRun EXCEPT !.skipped = TRUE, !.ret = 0]]
  /\ UNCHANGED <<payouts, isProcessing, creating, emitted, txs, ppVars, stVars, plVars, spVars, lrVars, tpVars>>

\* the promise of a processPayouts call settles: its caller has the return value
ProcessPayoutsReturn(c) ==
  /\ pc[c] = "returned"
  /\ pc' = [pc EXCEPT ![c] = "idle"]
  /\ run' = [run EXCEPT ![c] = IdleRun]
  /\ UNCHANGED <<payouts, isProcessing, creating, emitted, txs, ppVars, stVars, plVars, spVars, lrVars, tpVars>>

\* processPayouts() entered with the guard free: take it, call storage.getPendingPayouts()
ProcessPayoutsStart(c) ==
  /\ pc[c] = "idle"
  /\ TriggerMayFire(c)
  /\ ~GuardTaken
  /\ isProcessing' = TRUE
  /\ run' = [run EXCEPT ![c] = [IdleRun EXCEPT !.pending = GetPendingPayouts(payouts),
                                               !.snapLen = Len(payouts)]]
  /\ pc' = [pc EXCEPT ![c] = "getPending"]
  /\ UNCHANGED <<payouts, creating, emitted, txs, ppVars, stVars, plVars, spVars, lrVars, tpVars>>

\* processBatch(batch) entered: the first updatePayoutStatus(.., PROCESSING) call
EnterBatch(c, batches, bi, processedCount) ==
  LET batch == batches[bi] IN
  /\ payouts' = UpdatePayoutStatus(payouts, payouts[batch[1]].id, PROCESSING, NoTx)
  /\ run' = [run EXCEPT ![c] = [@ EXCEPT !.batches = batches, !.bi = bi, !.k = 1,
                                         !.outputs = EmptyOutputs, !.txid = NoTx,
                                         !.err = NoErr, !.result = 0,
                                         !.processedCount = processedCount]]
  /\ pc' = [pc EXCEPT ![c] = "mark"]

\* processPayouts after `await getPendingPayouts()`: nothing pending, or build the
\* batches and enter processBatch for the first one
ProcessPayoutsPending(c) ==
  /\ pc[c] = "getPending"
  /\ IF Len(run[c].pending) = 0
     THEN /\ isProcessing' = GuardAtEnd
          /\ pc' = [pc EXCEPT ![c] = "returned"]
          /\ run' = [run EXCEPT ![c] = IdleRun]
          /\ UNCHANGED payouts
     ELSE /\ EnterBatch(c, SplitBatches(run[c].pending), 1, 0)
          /\ UNCHANGED isProcessing
  /\ UNCHANGED <<creating, emitted, txs, ppVars, stVars, plVars, spVars, lrVars, tpVars>>

\* processBatch, the PROCESSING loop: next member, or build the outputs and call
\* bitcoinNode.createRawTransaction(outputs)
BatchMark(c) ==
  /\ pc[c] = "mark"
  /\ IF run[c].k < Len(Batch(c))
     THEN /\ payouts' = UpdatePayoutStatus(payouts, payouts[Batch(c)[run[c].k + 1]].id,
                                           PROCESSING, NoTx)
          /\ run' = [run EXCEPT ![c].k = @ + 1]
          /\ UNCHANGED pc
     ELSE /\ run' = [run EXCEPT ![c].outputs = BuildOutputs(payouts, Batch(c), EmptyOutputs)]
          /\ pc' = [pc EXCEPT ![c] = "create"]
          /\ UNCHANGED payouts
  /\ UNCHANGED <<isProcessing, creating, emitted, txs, ppVars, stVars, plVars, spVars, lrVars, tpVars>>

\* the catch block of processBatch entered with `error`: first updatePayoutStatus(.., FAILED)
EnterCatch(c, error) ==
  /\ payouts' = UpdatePayoutStatus(payouts, payouts[Batch(c)[1]].id, FAILED, NoTx)
  /\ run' = [run EXCEPT ![c].err = error, ![c].k = 1]
  /\ pc' = [pc EXCEPT ![c] = "fail"]

\* createRawTransaction returned the raw transaction: call signAndSendRawTransaction(rawTx)
BatchCreated(c) ==
  /\ pc[c] = "create"
  /\ pc' = [pc EXCEPT ![c] = "send"]
  /\ UNCHANGED <<payouts, isProcessing, run, creating,
                 emitted, txs, ppVars, stVars, plVars, spVars, lrVars, tpVars>>

\* createRawTransaction threw (not enough funds, RPC error)
BatchCreateThrows(c) ==
  /\ pc[c] = "create"
  /\ EnterCatch(c, "create")
  /\ UNCHANGED <<isProcessing, creating, emitted, txs, ppVars, stVars, plVars, spVars, lrVars, tpVars>>

\* signAndSendRawTransaction returned txid: the node has broadcast the transaction;
\* the COMPLETED loop starts with its first updatePayoutStatus call
BatchSent(c) ==
  /\ pc[c] = "send"
  /\ Len(txs) < MaxTxs
  /\ LET txid == Len(txs) + 1 IN
     /\ txs' = Append(txs, [txid |-> txid, outputs |-> run[c].outputs,
                            members |-> Range(Batch(c))])
     /\ payouts' = UpdatePayoutStatus(payouts, payouts[Batch(c)[1]].id, COMPLETED, txid)
     /\ run' = [run EXCEPT ![c].txid = txid, ![c].k = 1]
  /\ pc' = [pc EXCEPT ![c] = "complete"]
  /\ UNCHANGED <<isProcessing, creating, emitted, ppVars, stVars, plVars, spVars, lrVars, tpVars>>

\* signAndSendRawTransaction threw (signing or broadcast failed)
BatchSendThrows(c) ==
  /\ pc[c] = "send"
  /\ EnterCatch(c, "send")
  /\ UNCHANGED <<isProcessing, creating, emitted, txs, ppVars, stVars, plVars, spVars, lrVars, tpVars>>

\* the COMPLETED loop: emit payout:completed for the member just updated, then the
\* next member's update, or return payouts.length
BatchComplete(c) ==
  /\ pc[c] = "complete"
  /\ emitted' = [emitted EXCEPT ![Batch(c)[run[c].k]] =
                   [@ EXCEPT !.completed = Bump(@), !.txids = @ \cup {run[c].txid}]]
  /\ IF run[c].k < Len(Batch(c))
     THEN /\ payouts' = UpdatePayoutStatus(payouts, payouts[Batch(c)[run[c].k + 1]].id,
                                           COMPLETED, run[c].txid)
          /\ run' = [run EXCEPT ![c].k = @ + 1]
          /\ UNCHANGED pc
     ELSE /\ run' = [run EXCEPT ![c].result = Len(Batch(c))]
          /\ pc' = [pc EXCEPT ![c] = "batchDone"]
          /\ UNCHANGED payouts
  /\ UNCHANGED <<isProcessing, creating, txs, ppVars, stVars, plVars, spVars, lrVars, tpVars>>

\* the FAILED loop of the catch block: emit payout:failed for the member just
\* updated, then the next member's update, or return 0
BatchFail(c) ==
  /\ pc[c] = "fail"
  /\ emitted' = [emitted EXCEPT ![Batch(c)[run[c].k]] =
                   [@ EXCEPT !.failed = Bump(@), !.errors = @ \cup {run[c].err}]]
  /\ IF run[c].k < Len(Batch(c))
     THEN /\ payouts' = UpdatePayoutStatus(payouts, payouts[Batch(c)[run[c].k + 1]].id,
                                           FAILED, NoTx)
          /\ run' = [run EXCEPT ![c].k = @ + 1]
          /\ UNCHANGED pc
     ELSE /\ run' = [run EXCEPT ![c].result = 0]
          /\ pc' = [pc EXCEPT ![c] = "batchDone"]
          /\ UNCHANGED payouts
  /\ UNCHANGED <<isProcessing, creating, txs, ppVars, stVars, plVars, spVars, lrVars, tpVars>>

\* processPayouts after `await this.processBatch(batch)`: add the result, enter the
\* next batch, or return processedCount through `finally { isProcessing = false }`
ProcessPayoutsNext(c) ==
  /\ pc[c] = "batchDone"
  /\ LET count == run[c].processedCount + run[c].result IN
     IF run[c].bi < Len(run[c].batches)
     THEN /\ EnterBatch(c, run[c].batches, run[c].bi + 1, count)
          /\ UNCHANGED isProcessing
     ELSE /\ isProcessing' = GuardAtEnd
          /\ pc' = [pc EXCEPT ![c] = "returned"]
          /\ run' = [run EXCEPT ![c] = [IdleRun EXCEPT !.ret = count]]
          /\ UNCHANGED payouts
  /\ UNCHANGED <<creating, emitted, txs, ppVars, stVars, plVars, spVars, lrVars, tpVars>>

NextPM ==
  \/ \E u \in Users, a \in Amounts, t \in 0..MaxTime, r \in 0..(RandSpace - 1) :
       CreatePayout(u, a, t, r)
  \/ \E call \in creating : CreatePayoutEmit(call) \/ CreatePayoutThrown(call)
  \/ \E c \in Callers :
       \/ ProcessPayoutsSkip(c)
       \/ ProcessPayoutsStart(c)
       \/ ProcessPayoutsReturn(c)
       \/ ProcessPayoutsPending(c)
       \/ BatchMark(c)
       \/ BatchCreated(c)
       \/ BatchCreateThrows(c)
       \/ BatchSent(c)
       \/ BatchSendThrows(c)
       \/ BatchComplete(c)
       \/ BatchFail(c)
       \/ ProcessPayoutsNext(c)


\* ====================================================================
\* Part B: PayoutProcessor (src/server/payoutProcessor.ts)
\* ====================================================================
MaxCredit == 1         \* mining stats recorded per user (one unit of estimatedReward each)
MaxSent == 2           \* transactions cryptoClient.sendTransaction accepts before it only throws

settingsMinPayout == 1     \* settings.minPayout (0.005 by default), in units of estimatedReward

PPUsers == {"uA", "uB"}
\* user.walletAddress: uB has configured none
HasWallet(u) == u = "uA"

Kinds == {"scheduled", "manual"}
Tasks == Kinds \X PPUsers
Kind(k) == k[1]
UserOf(k) == k[2]

DbStatus == {"pending", "confirmed", "failed"}

IdleTask == [pc |-> "idle", estimatedReward |-> 0, unpaidBalance |-> 0]

\* the task is inside processUserPayout
PayoutWork(k) == task[k].pc \in {"stats", "payouts", "coin", "send", "record"}

\* previousPayouts.filter(payout => payout.status === 'confirmed').reduce(sum + amount)
RECURSIVE TotalPaid(_, _)
TotalPaid(ps, u) ==
  IF ps = <<>> THEN 0
  ELSE (IF Head(ps).userId = u /\ Head(ps).status = "confirmed" THEN Head(ps).amount ELSE 0)
       + TotalPaid(Tail(ps), u)

\* the amounts of all payouts created for user u, whatever their status
RECURSIVE TotalCreated(_, _)
TotalCreated(ps, u) ==
  IF ps = <<>> THEN 0
  ELSE (IF Head(ps).userId = u THEN Head(ps).amount ELSE 0) + TotalCreated(Tail(ps), u)

Max(a, b) == IF a >= b THEN a ELSE b

\* calculateUnpaidBalance: Math.max(0, estimatedReward - totalPaid)
UnpaidBalance(estimatedReward, ps, u) == Max(0, estimatedReward - TotalPaid(ps, u))

InitPP ==
  /\ ppIsProcessing = FALSE
  /\ ppPc = "idle"
  /\ ppSkipped = FALSE
  /\ task = [k \in Tasks |-> IdleTask]
  /\ hashCredit = [u \in PPUsers |-> 0]
  /\ earned = [u \in PPUsers |-> 0]
  /\ dbPayouts = <<>>
  /\ sent = <<>>
  /\ timers = {}

\* a mining stat of user u is recorded: its hashrate adds to the estimated reward
RecordMiningStat(u) ==
  /\ earned[u] < MaxCredit
  /\ earned' = [earned EXCEPT ![u] = @ + 1]
  /\ hashCredit' = [hashCredit EXCEPT ![u] = @ + 1]
  /\ UNCHANGED <<ppIsProcessing, ppPc, ppSkipped, task, dbPayouts, sent, timers, pmVars, stVars, plVars, spVars, lrVars, tpVars>>

\* a mining stat of user u becomes older than 24 hours
MiningStatExpires(u) ==
  /\ hashCredit[u] > 0
  /\ hashCredit' = [hashCredit EXCEPT ![u] = @ - 1]
  /\ UNCHANGED <<ppIsProcessing, ppPc, ppSkipped, task, earned, dbPayouts, sent, timers, pmVars, stVars, plVars, spVars, lrVars, tpVars>>

\* processUserPayout(user) entered: the wallet check, then calculateUnpaidBalance
\* up to `await storage.getMiningStats(userId)`
EnterUserPayout(k) ==
  IF HasWallet(UserOf(k)) THEN [IdleTask EXCEPT !.pc = "stats"]
  ELSE [IdleTask EXCEPT !.pc = IF Kind(k) = "scheduled" THEN "done" ELSE "idle"]

\* processUserPayout returns (true or false): a scheduled task waits in Promise.all
LeaveUserPayout(k) ==
  [IdleTask EXCEPT !.pc = IF Kind(k) = "scheduled" THEN "done" ELSE "idle"]

\* processAllPendingPayouts() entered while isProcessing: log and return
ProcessAllSkip ==
  /\ ppIsProcessing
  /\ ~ppSkipped
  /\ ppSkipped' = TRUE
  /\ UNCHANGED <<ppIsProcessing, ppPc, task, hashCredit, earned, dbPayouts, sent, timers, pmVars, stVars, plVars, spVars, lrVars, tpVars>>

\* the skipped call's promise settles
ProcessAllSkipReturn ==
  /\ ppSkipped
  /\ ppSkipped' = FALSE
  /\ UNCHANGED <<ppIsProcessing, ppPc, task, hashCredit, earned, dbPayouts, sent, timers, pmVars, stVars, plVars, spVars, lrVars, tpVars>>

\* processAllPendingPayouts() entered with the guard free: take it, call getSettings()
ProcessAllStart ==
  /\ ~ppIsProcessing
  /\ ppPc = "idle"
  /\ ppIsProcessing' = TRUE
  /\ ppPc' = "settings"
  /\ UNCHANGED <<ppSkipped, task, hashCredit, earned, dbPayouts, sent, timers, pmVars, stVars, plVars, spVars, lrVars, tpVars>>

\* getSettings() returned settings without rewardAddress / rewardSeedPhrase, or
\* threw: return through `finally { isProcessing = false }`
ProcessAllNoWallet ==
  /\ ppPc = "settings"
  /\ ppIsProcessing' = FALSE
  /\ ppPc' = "idle"
  /\ UNCHANGED <<ppSkipped, task, hashCredit, earned, dbPayouts, sent, timers, pmVars, stVars, plVars, spVars, lrVars, tpVars>>

\* getSettings() returned the admin wallet: call getAllUsers()
ProcessAllSettings ==
  /\ ppPc = "settings"
  /\ ppPc' = "users"
  /\ UNCHANGED <<ppIsProcessing, ppSkipped, task, hashCredit, earned, dbPayouts, sent, timers,
                 pmVars, stVars, plVars, spVars, lrVars, tpVars>>

\* getAllUsers() returned: users.map(user => processUserPayout(user, settings))
\* enters processUserPayout for every user; then `await Promise.all(..)`
ProcessAllUsers ==
  /\ ppPc = "users"
  /\ task' = [k \in Tasks |-> IF Kind(k) = "scheduled" THEN EnterUserPayout(k) ELSE task[k]]
  /\ ppPc' = "all"
  /\ UNCHANGED <<ppIsProcessing, ppSkipped, hashCredit, earned, dbPayouts, sent, timers, pmVars, stVars, plVars, spVars, lrVars, tpVars>>

\* Promise.all resolved: log, `finally { isProcessing = false }`
ProcessAllDone ==
  /\ ppPc = "all"
  /\ \A u \in PPUsers : task[<<"scheduled", u>>].pc = "done"
  /\ task' = [k \in Tasks |-> IF Kind(k) = "scheduled" THEN IdleTask ELSE task[k]]
  /\ ppIsProcessing' = FALSE
  /\ ppPc' = "idle"
  /\ UNCHANGED <<ppSkipped, hashCredit, earned, dbPayouts, sent, timers, pmVars, stVars, plVars, spVars, lrVars, tpVars>>

\* manualPayout(userId) up to `await storage.getUser(userId)`
ManualPayout(u) ==
  /\ task[<<"manual", u>>].pc = "idle"
  /\ task' = [task EXCEPT ![<<"manual", u>>].pc = "user"]
  /\ UNCHANGED <<ppIsProcessing, ppPc, ppSkipped, hashCredit, earned, dbPayouts, sent, timers,
                 pmVars, stVars, plVars, spVars, lrVars, tpVars>>

\* manualPayout: getUser returned the user, call getSettings()
ManualGotUser(u) ==
  /\ task[<<"manual", u>>].pc = "user"
  /\ task' = [task EXCEPT ![<<"manual", u>>].pc = "settings"]
  /\ UNCHANGED <<ppIsProcessing, ppPc, ppSkipped, hashCredit, earned, dbPayouts, sent, timers,
                 pmVars, stVars, plVars, spVars, lrVars, tpVars>>

\* manualPayout: getSettings returned, processUserPayout(user, settings) is entered
ManualGotSettings(u) ==
  /\ task[<<"manual", u>>].pc = "settings"
  /\ task' = [task EXCEPT ![<<"manual", u>>] = EnterUserPayout(<<"manual", u>>)]
  /\ UNCHANGED <<ppIsProcessing, ppPc, ppSkipped, hashCredit, earned, dbPayouts, sent, timers,
                 pmVars, stVars, plVars, spVars, lrVars, tpVars>>

\* calculateUnpaidBalance after getMiningStats: no recent stats gives 0 (and
\* processUserPayout returns false), else estimatedReward and call getPayouts
UserStats(k) ==
  /\ task[k].pc = "stats"
  /\ task' = [task EXCEPT ![k] =
        IF hashCredit[UserOf(k)] = 0 THEN LeaveUserPayout(k)
        ELSE [@ EXCEPT !.pc = "payouts", !.estimatedReward = hashCredit[UserOf(k)]]]
  /\ UNCHANGED <<ppIsProcessing, ppPc, ppSkipped, hashCredit, earned, dbPayouts, sent, timers,
                 pmVars, stVars, plVars, spVars, lrVars, tpVars>>

\* calculateUnpaidBalance after getPayouts, then the checks of processUserPayout
\* (unpaidBalance <= 0, unpaidBalance < settings.minPayout) and getUserPrimaryCoin
UserBalance(k) ==
  /\ task[k].pc = "payouts"
  /\ LET unpaidBalance == UnpaidBalance(task[k].estimatedReward, dbPayouts, UserOf(k)) IN
     task' = [task EXCEPT ![k] =
        IF unpaidBalance <= 0 \/ unpaidBalance < settingsMinPayout THEN LeaveUserPayout(k)
        ELSE [IdleTask EXCEPT !.pc = "coin", !.unpaidBalance = unpaidBalance]]
  /\ UNCHANGED <<ppIsProcessing, ppPc, ppSkipped, hashCredit, earned, dbPayouts, sent, timers,
                 pmVars, stVars, plVars, spVars, lrVars, tpVars>>

\* getUserPrimaryCoin returned: call cryptoClient.sendTransaction(.., unpaidBalance, ..)
UserCoin(k) ==
  /\ task[k].pc = "coin"
  /\ task' = [task EXCEPT ![k].pc = "send"]
  /\ UNCHANGED <<ppIsProcessing, ppPc, ppSkipped, hashCredit, earned, dbPayouts, sent, timers,
                 pmVars, stVars, plVars, spVars, lrVars, tpVars>>

\* sendTransaction returned the transaction: call storage.createPayout(..)
UserSent(k) ==
  /\ task[k].pc = "send"
  /\ Len(sent) < MaxSent
  /\ sent' = Append(sent, [txId |-> Len(sent) + 1, userId |-> UserOf(k),
                           amount |-> task[k].unpaidBalance, by |-> Kind(k)])
  /\ task' = [task EXCEPT ![k].pc = "record"]
  /\ UNCHANGED <<ppIsProcessing, ppPc, ppSkipped, hashCredit, earned, dbPayouts, timers, pmVars, stVars, plVars, spVars, lrVars, tpVars>>

\* sendTransaction threw: processUserPayout logs and returns false
UserSendThrows(k) ==
  /\ task[k].pc = "send"
  /\ task' = [task EXCEPT ![k] = LeaveUserPayout(k)]
  /\ UNCHANGED <<ppIsProcessing, ppPc, ppSkipped, hashCredit, earned, dbPayouts, sent, timers,
                 pmVars, stVars, plVars, spVars, lrVars, tpVars>>

\* storage.createPayout returned the row (status 'pending' by default):
\* setTimeout(.., 5000) for the status check, return true
UserRecorded(k) ==
  /\ task[k].pc = "record"
  /\ dbPayouts' = Append(dbPayouts, [userId |-> UserOf(k), amount |-> task[k].unpaidBalance,
                                     status |-> "pending", transactionId |-> Len(sent)])
  /\ timers' = timers \cup {Len(dbPayouts) + 1}
  /\ task' = [task EXCEPT ![k] = LeaveUserPayout(k)]
  /\ UNCHANGED <<ppIsProcessing, ppPc, ppSkipped, hashCredit, earned, sent, pmVars, stVars, plVars, spVars, lrVars, tpVars>>

\* the 5 s timer of payout id fires: getTransactionStatus, storage.updatePayoutStatus
StatusCheck(id, status) ==
  /\ id \in timers
  /\ timers' = timers \ {id}
  /\ dbPayouts' = [dbPayouts EXCEPT ![id].status = status]
  /\ UNCHANGED <<ppIsProcessing, ppPc, ppSkipped, task, hashCredit, earned, sent, pmVars, stVars, plVars, spVars, lrVars, tpVars>>

NextPP ==
  \/ \E u \in PPUsers : RecordMiningStat(u) \/ MiningStatExpires(u)
  \/ ProcessAllSkip
  \/ ProcessAllSkipReturn
  \/ ProcessAllStart
  \/ ProcessAllNoWallet
  \/ ProcessAllSettings
  \/ ProcessAllUsers
  \/ ProcessAllDone
  \/ \E u \in PPUsers : ManualPayout(u) \/ ManualGotUser(u) \/ ManualGotSettings(u)
  \/ \E k \in Tasks :
       \/ UserStats(k)
       \/ UserBalance(k)
       \/ UserCoin(k)
       \/ UserSent(k)
       \/ UserSendThrows(k)
       \/ UserRecorded(k)
  \/ \E id \in timers, status \in DbStatus : StatusCheck(id, status)

\* ====================================================================
\* Part C: StratumServer / StratumClient (src/server/routes-fixed.ts) and the
\*         ShareLedger it feeds (src/server/bitcoin/share-processor.ts)
\* ====================================================================
MaxConns == 2          \* connections open at one time
MaxIds == 2            \* distinct remoteAddress:remotePort identifiers
NonceSpace == 2        \* crypto.randomBytes(4) ranges over 0..NonceSpace-1
MaxJobs == 3           \* jobs minted
HashSpace == 2         \* previousblockhash of a polled template ranges over 1..HashSpace
MaxCurtime == 0        \* curtime of a polled template ranges over 0..MaxCurtime
MaxPolls == 1          \* getBlockTemplate calls in flight at one time
MaxBlockSubmits == 1   \* submitBlock calls in flight at one time
MaxShares == 1         \* shares the ledger holds

Conns == 1..MaxConns
ClientIds == 1..MaxIds
Workers == {"wA"}                \* worker names a miner sends
Methods == {"mining.subscribe", "mining.authorize", "mining.submit"}

\* the jobId parameter of mining.submit: the decimal string of n, or a JSON number
\* (which no template literal equals, whatever the number)
JobRefs == ({"string"} \X (0..MaxJobs)) \cup ({"number"} \X {1})

\* `${this.jobId}`
JobString(n) == <<"string", n>>

\* a slot with no StratumClient (its socket has closed, or none was accepted yet)
NoClient == [open |-> FALSE, id |-> 0, extraNonce1 |-> 0, isSubscribed |-> FALSE,
             isAuthorized |-> FALSE, username |-> "", isConnected |-> FALSE]

\* new StratumClient(socket, clientId, extraNonce1, extraNonce2Size)
NewClient(clientId, extraNonce1) ==
  [open |-> TRUE, id |-> clientId, extraNonce1 |-> extraNonce1, isSubscribed |-> FALSE,
   isAuthorized |-> FALSE, username |-> "", isConnected |-> TRUE]

\* currentBlockTemplate = null
NoTemplate == [held |-> FALSE, previousblockhash |-> 0, curtime |-> 0]

\* what getBlockTemplate can return
Templates == [held : {TRUE}, previousblockhash : 1..HashSpace, curtime : 0..MaxCurtime]

\* Map.set(key, value): an existing key keeps its place, a new key goes last
MapSet(m, key, value) ==
  IF \E i \in 1..Len(m) : m[i].key = key
  THEN [i \in 1..Len(m) |-> IF m[i].key = key THEN [key |-> key, value |-> value] ELSE m[i]]
  ELSE Append(m, [key |-> key, value |-> value])

\* Map.delete(key)
MapDelete(m, key) == SelectSeq(m, LAMBDA e : e.key # key)

\* the connection is in the active set: some entry of the Map holds its client
Registered(m, c) == \E i \in 1..Len(m) : m[i].value = c

\* StratumClient.send: written to the socket only while isConnected
Send(cl, c, method, arg) ==
  IF cl[c].isConnected THEN <<[to |-> c, method |-> method, arg |-> arg]>> ELSE <<>>

\* createJobParams, sendJob: mining.notify with the job id and the template's hash
SendJob(cl, c, jid, template) ==
  Send(cl, c, "mining.notify", <<jid, template.previousblockhash>>)

\* broadcastJob: every client of the Map that has subscribed, in the Map's order
RECURSIVE BroadcastJob(_, _, _, _)
BroadcastJob(m, cl, jid, template) ==
  IF m = <<>> THEN <<>>
  ELSE (IF cl[Head(m).value].isSubscribed THEN SendJob(cl, Head(m).value, jid, template)
        ELSE <<>>)
       \o BroadcastJob(Tail(m), cl, jid, template)

Emit(type, arg) == [type |-> type, arg |-> arg]

Ran(op, c, n) == [op |-> op, conn |-> c, arg |-> n]

InitST ==
  /\ conn = [c \in Conns |-> NoClient]
  /\ clients = <<>>
  /\ jobId = 0
  /\ currentBlockTemplate = NoTemplate
  /\ polls = 0
  /\ blockSubmits = 0
  /\ shares = <<>>
  /\ wire = <<>>
  /\ events = <<>>
  /\ last = Ran("none", 0, 0)

\* handleConnection(socket): clientId is remoteAddress:remotePort, extraNonce1 is
\* what crypto.randomBytes draws; client.start() sends mining.set_difficulty
HandleConnection(c, clientId, extraNonce1) ==
  /\ ~conn[c].open
  /\ \A d \in Conns : d < c => conn[d].open       \* slots are taken lowest first
  /\ conn' = [conn EXCEPT ![c] = NewClient(clientId, extraNonce1)]
  /\ clients' = MapSet(clients, clientId, c)
  /\ wire' = Send(conn', c, "mining.set_difficulty", 8)
  /\ events' = <<>>
  /\ last' = Ran("connect", c, 0)
  /\ UNCHANGED <<jobId, currentBlockTemplate, polls, blockSubmits, shares, pmVars, ppVars, plVars, spVars, lrVars, tpVars>>

\* the socket's 'close': StratumClient.handleClose, then handleDisconnect
HandleClose(c) ==
  /\ conn[c].open
  /\ conn' = [conn EXCEPT ![c] = NoClient]
  /\ clients' = MapDelete(clients, conn[c].id)
  /\ wire' = <<>>
  /\ events' = <<Emit("worker:disconnected", conn[c].username)>>
  /\ last' = Ran("close", c, 0)
  /\ UNCHANGED <<jobId, currentBlockTemplate, polls, blockSubmits, shares, pmVars, ppVars, plVars, spVars, lrVars, tpVars>>

\* mutant: the catch drops the client
HandleMessageCatch_Drops(cl, c) == [cl EXCEPT ![c] = NoClient]

\* the catch of handleMessage: logger.error, the client is left as it is
HandleMessageCatch(cl, c) == cl

\* handleMessage: JSON.parse throws, the catch logs
BadJson(c) ==
  /\ conn[c].open
  /\ conn' = HandleMessageCatch(conn, c)
  /\ wire' = <<>>
  /\ events' = <<>>
  /\ last' = Ran("discarded", c, 0)
  /\ UNCHANGED <<clients, jobId, currentBlockTemplate, polls, blockSubmits, shares,
                 pmVars, ppVars, plVars, spVars, lrVars, tpVars>>

\* handleMessage: none of the three methods, the else branch logs
UnknownMethod(c) ==
  /\ conn[c].open
  /\ wire' = <<>>
  /\ events' = <<>>
  /\ last' = Ran("discarded", c, 0)
  /\ UNCHANGED <<conn, clients, jobId, currentBlockTemplate, polls, blockSubmits, shares,
                 pmVars, ppVars, plVars, spVars, lrVars, tpVars>>

\* handleMessage: mining.authorize or mining.submit whose params is not iterable
\* (absent, null, a number): the array destructuring throws a TypeError, which the
\* catch of handleMessage logs
BadParams(c, method) ==
  /\ conn[c].open
  /\ method \in {"mining.authorize", "mining.submit"}
  /\ conn' = HandleMessageCatch(conn, c)
  /\ wire' = <<>>
  /\ events' = <<>>
  /\ last' = Ran("threw", c, 0)
  /\ UNCHANGED <<clients, jobId, currentBlockTemplate, polls, blockSubmits, shares,
                 pmVars, ppVars, plVars, spVars, lrVars, tpVars>>

\* handleMessage: mining.subscribe, then handleSubscription
Subscribe(c) ==
  /\ conn[c].open
  /\ conn' = [conn EXCEPT ![c].isSubscribed = TRUE]
  /\ wire' = Send(conn', c, "mining.subscribe", conn[c].extraNonce1)
             \o (IF currentBlockTemplate.held
                 THEN SendJob(conn', c, jobId, currentBlockTemplate) ELSE <<>>)
  /\ events' = <<>>
  /\ last' = Ran("subscribe", c, 0)
  /\ UNCHANGED <<clients, jobId, currentBlockTemplate, polls, blockSubmits, shares,
                 pmVars, ppVars, plVars, spVars, lrVars, tpVars>>

\* handleMessage: mining.authorize, then handleAuthorization and client.authorize(true, username)
Authorize(c, username) ==
  /\ conn[c].open
  /\ conn' = [conn EXCEPT ![c].isAuthorized = TRUE, ![c].username = username]
  /\ wire' = Send(conn', c, "mining.authorize", TRUE)
  /\ events' = <<Emit("worker:connected", username)>>
  /\ last' = Ran("authorize", c, 0)
  /\ UNCHANGED <<clients, jobId, currentBlockTemplate, polls, blockSubmits, shares,
                 pmVars, ppVars, plVars, spVars, lrVars, tpVars>>

\* mutant: only a job id from the future is stale
StaleJob_NewerOnly(jobRef, jid) == jobRef[2] > jid

\* validateShare: jobId !== `${this.jobId}`
StaleJob(jobRef, jid) == jobRef # JobString(jid)

\* validateShare; pow says whether the submitted work passes the proof-of-work check
\* (which the code draws as Math.random() > 0.05, and only for a job that is not stale)
ValidateShare(jobRef, jid, pow) == IF StaleJob(jobRef, jid) THEN FALSE ELSE pow

\* mutant: the block check is made for every share
ChecksBlock_Always(isValid) == TRUE

\* handleSubmit: the block check is made for a valid share only
ChecksBlock(isValid) == isValid

\* shareData of handleSubmit as processShare reads it: it carries no isBlock
ShareData(workername, isValid) ==
  [workerId |-> workername, isValid |-> isValid, isBlock |-> FALSE]

\* processShare: `if (share.isBlock)` gates calculateBlockRewards
TriggersRewardSplit(share) == share.isBlock

\* handleMessage: mining.submit with params [workername, jobId, ..], then handleSubmit;
\* the 'share:submitted' listener calls processShare, which pushes the share;
\* meets is the outcome of checkBlockSolution (Math.random() < 0.001)
Submit(c, workername, jobRef, pow, meets) ==
  LET isValid == ValidateShare(jobRef, jobId, pow)
      isBlock == ChecksBlock(isValid) /\ meets
  IN
  /\ conn[c].open
  /\ Len(shares) < MaxShares
  /\ ~ChecksBlock(isValid) => ~meets      \* no block check is made for an invalid share
  /\ isBlock => blockSubmits < MaxBlockSubmits
  /\ shares' = Append(shares, ShareData(workername, isValid))
  /\ wire' = Send(conn, c, "mining.submit", isValid)
  /\ events' = <<Emit("share:submitted", <<workername, isValid>>)>>
               \o (IF isBlock THEN <<Emit("block:found", workername)>> ELSE <<>>)
  /\ blockSubmits' = IF isBlock THEN blockSubmits + 1 ELSE blockSubmits
  /\ last' = Ran("submit", c, jobRef[2])
  /\ UNCHANGED <<conn, clients, jobId, currentBlockTemplate, polls, pmVars, ppVars, plVars, spVars, lrVars, tpVars>>

\* how bitcoinNode.submitBlock can end: it resolves true, resolves false, or throws
SubmitBlockOutcomes == {"accepted", "refused", "thrown"}

\* submitBlockToNetwork after `await this.bitcoinNode.submitBlock(..)`: accepted,
\* refused or thrown, it is logged and nothing else happens
SubmitBlockSettles(outcome) ==
  /\ blockSubmits > 0
  /\ outcome \in SubmitBlockOutcomes
  /\ blockSubmits' = blockSubmits - 1
  /\ wire' = <<>>
  /\ events' = <<>>
  /\ last' = Ran(outcome, 0, 0)
  /\ UNCHANGED <<conn, clients, jobId, currentBlockTemplate, polls, shares, pmVars, ppVars, plVars, spVars, lrVars, tpVars>>

\* the 5 s timer of initializeBlockPolling fires: getBlockTemplate() is called
PollTick ==
  /\ polls < MaxPolls
  /\ polls' = polls + 1
  /\ wire' = <<>>
  /\ events' = <<>>
  /\ last' = Ran("poll", 0, 0)
  /\ UNCHANGED <<conn, clients, jobId, currentBlockTemplate, blockSubmits, shares,
                 pmVars, ppVars, plVars, spVars, lrVars, tpVars>>

\* mutant: every polled template is taken as new
IsNewTemplate_Always(held, blockTemplate) == TRUE

\* the poller's test: no template held, or another previousblockhash
IsNewTemplate(held, blockTemplate) ==
  ~held.held \/ held.previousblockhash # blockTemplate.previousblockhash

\* getBlockTemplate returned blockTemplate
PollReturns(blockTemplate) ==
  /\ polls > 0
  /\ polls' = polls - 1
  /\ IF IsNewTemplate(currentBlockTemplate, blockTemplate)
     THEN /\ jobId < MaxJobs
          /\ currentBlockTemplate' = blockTemplate
          /\ jobId' = jobId + 1
          /\ wire' = BroadcastJob(clients, conn, jobId', blockTemplate)
          /\ last' = Ran("minted", 0, 0)
     ELSE /\ wire' = <<>>
          /\ last' = Ran("poll", 0, 0)
          /\ UNCHANGED <<jobId, currentBlockTemplate>>
  /\ events' = <<>>
  /\ UNCHANGED <<conn, clients, blockSubmits, shares, pmVars, ppVars, plVars, spVars, lrVars, tpVars>>

\* getBlockTemplate threw: the catch logs
PollThrows ==
  /\ polls > 0
  /\ polls' = polls - 1
  /\ wire' = <<>>
  /\ events' = <<>>
  /\ last' = Ran("pollThrew", 0, 0)
  /\ UNCHANGED <<conn, clients, jobId, currentBlockTemplate, blockSubmits, shares,
                 pmVars, ppVars, plVars, spVars, lrVars, tpVars>>

NextST ==
  \/ \E c \in Conns, clientId \in ClientIds, extraNonce1 \in 0..(NonceSpace - 1) :
       HandleConnection(c, clientId, extraNonce1)
  \/ \E c \in Conns :
       \/ HandleClose(c)
       \/ BadJson(c)
       \/ UnknownMethod(c)
       \/ Subscribe(c)
       \/ \E method \in Methods : BadParams(c, method)
       \/ \E username \in Workers : Authorize(c, username)
       \/ \E workername \in Workers, jobRef \in JobRefs, pow \in BOOLEAN, meets \in BOOLEAN :
            Submit(c, workername, jobRef, pow, meets)
  \/ \E outcome \in SubmitBlockOutcomes : SubmitBlockSettles(outcome)
  \/ PollTick
  \/ \E blockTemplate \in Templates : PollReturns(blockTemplate)
  \/ PollThrows

\* ====================================================================
\* Part D: the two timers of StratumServer.initializeBlockPolling, with the
\*         sessions they reach (src/server/routes-fixed.ts)
\* ====================================================================
MaxDifficulty == 2     \* getDifficulty returns 1..MaxDifficulty
MaxDiffPolls == 1      \* getDifficulty calls in flight at one time

\* what getDifficulty can return
NetworkDifficulties == 1..MaxDifficulty

\* private difficulty: number = 1
InitPL ==
  /\ difficulty = 1
  /\ diffPolls = 0

\* the 60 s timer fires: getDifficulty() is called
DifficultyTick ==
  /\ diffPolls < MaxDiffPolls
  /\ diffPolls' = diffPolls + 1
  /\ wire' = <<>>
  /\ events' = <<>>
  /\ last' = Ran("difficultyPoll", 0, 0)
  /\ UNCHANGED <<difficulty, conn, clients, jobId, currentBlockTemplate, polls, blockSubmits,
                 shares, pmVars, ppVars, spVars, lrVars, tpVars>>

\* this.difficulty = await this.bitcoinNode.getDifficulty(), the call returning d:
\* the field is written and logged, nothing is sent
DifficultyReturns(d) ==
  /\ diffPolls > 0
  /\ diffPolls' = diffPolls - 1
  /\ difficulty' = d
  /\ wire' = <<>>
  /\ events' = <<>>
  /\ last' = Ran("difficulty", 0, d)
  /\ UNCHANGED <<conn, clients, jobId, currentBlockTemplate, polls, blockSubmits,
                 shares, pmVars, ppVars, spVars, lrVars, tpVars>>

\* mutant: the field is cleared when the call throws
AssignThrown_Cleared(old) == 0

\* `this.difficulty = await p` with p rejected: the assignment is never made
AssignThrown(old) == old

\* getDifficulty threw: the catch logs
DifficultyThrows ==
  /\ diffPolls > 0
  /\ diffPolls' = diffPolls - 1
  /\ difficulty' = AssignThrown(difficulty)
  /\ wire' = <<>>
  /\ events' = <<>>
  /\ last' = Ran("difficultyThrew", 0, 0)
  /\ UNCHANGED <<conn, clients, jobId, currentBlockTemplate, polls, blockSubmits,
                 shares, pmVars, ppVars, spVars, lrVars, tpVars>>

\* the timers, with miners that connect, subscribe, authorize and leave
NextPL ==
  \/ \E c \in Conns, clientId \in ClientIds, extraNonce1 \in 0..(NonceSpace - 1) :
       HandleConnection(c, clientId, extraNonce1)
  \/ \E c \in Conns :
       \/ HandleClose(c)
       \/ Subscribe(c)
       \/ \E username \in Workers : Authorize(c, username)
  \/ PollTick
  \/ \E blockTemplate \in Templates : PollReturns(blockTemplate)
  \/ PollThrows
  \/ DifficultyTick
  \/ \E d \in NetworkDifficulties : DifficultyReturns(d)
  \/ DifficultyThrows

\* ====================================================================
\* Part E: ShareProcessor and MemoryShareStorage
\*         (src/server/bitcoin/share-processor.ts)
\* ====================================================================
MantissaBits == 13     \* bits of mantissa a number keeps (an IEEE double keeps 53)
MaxLedger == 2         \* shares the ledger holds
MaxInFlight == 2       \* processShare calls in flight at one time

\* ---- numbers: binary floating point, round to nearest, ties to even.
\* A number is m * 2^e with m = 0 or 2^(MantissaBits-1) <= m < 2^MantissaBits.
Zero == [m |-> 0, e |-> 0]

RECURSIVE BitLength(_)
BitLength(n) == IF n = 0 THEN 0 ELSE 1 + BitLength(n \div 2)

\* the number nearest to n * 2^e (n a natural number); sticky says that the
\* exact value lies a little above n * 2^e (a division left a remainder)
RoundToFloat(n, e, sticky) ==
  IF n = 0 THEN Zero
  ELSE LET b == BitLength(n) IN
       IF b <= MantissaBits
       THEN [m |-> n * 2^(MantissaBits - b), e |-> e - (MantissaBits - b)]
       ELSE LET sh == b - MantissaBits
                q == n \div 2^sh
                r == n % 2^sh
                half == 2^(sh - 1)
                up == r > half \/ (r = half /\ (sticky \/ q % 2 = 1))
                q1 == IF up THEN q + 1 ELSE q
            IN  IF q1 = 2^MantissaBits
                THEN [m |-> q1 \div 2, e |-> e + sh + 1]
                ELSE [m |-> q1, e |-> e + sh]

\* a small natural number as a number (exact below 2^MantissaBits)
FromInt(n) == RoundToFloat(n, 0, FALSE)

\* a * b
FMul(a, b) == RoundToFloat(a.m * b.m, a.e + b.e, FALSE)

\* a / b, b # 0
FDiv(a, b) ==
  LET n == a.m * 2^(MantissaBits + 2)
  IN  RoundToFloat(n \div b.m, a.e - b.e - (MantissaBits + 2), n % b.m # 0)

\* the two mantissas brought to the smaller exponent
Aligned(a, b) ==
  LET e == IF a.e < b.e THEN a.e ELSE b.e
  IN  [e |-> e, a |-> a.m * 2^(a.e - e), b |-> b.m * 2^(b.e - e)]

\* a - b, a >= b
FSub(a, b) ==
  IF b.m = 0 THEN a
  ELSE LET al == Aligned(a, b) IN RoundToFloat(al.a - al.b, al.e, FALSE)

\* ---- time, in units of 10 minutes
HashrateWindow == 1    \* 10 * 60 * 1000 ms
RewardWindow == 6      \* 60 * 60 * 1000 ms
WindowSeconds == 600   \* (endTime - startTime) / 1000 of the hashrate window

\* the instants the clock is read at: shares stamped at the first are at the edge
\* of the reward window at the second and outside it at the third, where shares
\* stamped at the second are at the edge of the hashrate window
Instants == {0, RewardWindow, RewardWindow + HashrateWindow}

\* ---- shares
Miners == {"wA", "wB"}
ShareDifficulties == {100, 300, 600}

\* interface Share (ip, blockHeight and blockHash are only passed through)
Shares == [workerId : Miners, timestamp : Instants, difficulty : ShareDifficulties,
           isValid : BOOLEAN, isBlock : BOOLEAN]

\* mutant: the share is not in the ledger when the call goes on
SaveShare_NotYet(ledger, share) == ledger

\* mutant: a share equal to a stored one is not stored again
SaveShare_Dedup(ledger, share) ==
  IF \E i \in 1..Len(ledger) : ledger[i] = share THEN ledger ELSE Append(ledger, share)

\* mutant: the share is put in front
SaveShare_Front(ledger, share) == <<share>> \o ledger

\* MemoryShareStorage.saveShare: this.shares.push(share)
SaveShare(ledger, share) == Append(ledger, share)

\* mutant: the window leaves out its last instant
InWindow_Open(share, startTime, endTime) ==
  share.timestamp >= startTime /\ share.timestamp < endTime

\* share.timestamp >= startTime && share.timestamp <= endTime
InWindow(share, startTime, endTime) ==
  share.timestamp >= startTime /\ share.timestamp <= endTime

\* MemoryShareStorage.getWorkerValidShares
GetWorkerValidShares(ledger, workerId, startTime, endTime) ==
  SelectSeq(ledger, LAMBDA share :
     share.workerId = workerId /\ share.isValid /\ InWindow(share, startTime, endTime))

\* mutant: the shares of the window, valid or not
GetPoolValidShares_All(ledger, startTime, endTime) ==
  SelectSeq(ledger, LAMBDA share : InWindow(share, startTime, endTime))

\* MemoryShareStorage.getPoolValidShares
GetPoolValidShares(ledger, startTime, endTime) ==
  SelectSeq(ledger, LAMBDA share : share.isValid /\ InWindow(share, startTime, endTime))

\* shares.reduce((sum, share) => sum + share.difficulty, 0): the sums stay far
\* below 2^53, so they are exact
RECURSIVE TotalDifficulty(_)
TotalDifficulty(found) ==
  IF found = <<>> THEN 0 ELSE Head(found).difficulty + TotalDifficulty(Tail(found))

\* ---- hashrate
\* 4.295e9, in units of 64 hashes (4.295e9 = 4295 * 15625 * 64)
HashesPerDifficulty == 4295 * 15625

\* totalDifficulty * 4.295e9 / timeWindowSeconds: the product is exact in a
\* double; the quotient is kept as its operands
Hashrate(totalDifficulty, timeWindowSeconds) ==
  [difficulty |-> totalDifficulty, perDifficulty |-> HashesPerDifficulty,
   seconds |-> timeWindowSeconds]

\* ---- reward split
\* private blockReward: number = 6.25
blockReward == RoundToFloat(25, -2, FALSE)

\* private poolFeePercent: number = 1.0
poolFeePercent == FromInt(1)

\* const poolFee = this.blockReward * (this.poolFeePercent / 100)
PoolFee == FMul(blockReward, FDiv(poolFeePercent, FromInt(100)))

\* const rewardAfterFee = this.blockReward - poolFee
RewardAfterFee == FSub(blockReward, PoolFee)

\* the keys of workerShares: the workers that have a share among allShares
WorkersOf(allShares) == {allShares[i].workerId : i \in 1..Len(allShares)}

\* rewards[workerId] = rewardAfterFee * (workerTotalDifficulty / totalDifficulty)
WorkerRewards(allShares) ==
  [workerId \in WorkersOf(allShares) |->
     FMul(RewardAfterFee,
          FDiv(FromInt(TotalDifficulty(SelectSeq(allShares,
                          LAMBDA share : share.workerId = workerId))),
               FromInt(TotalDifficulty(allShares))))]

\* createShareProcessor(): an empty MemoryShareStorage, no call in flight
InitSP ==
  /\ now = 0
  /\ calls = <<>>
  /\ handled = <<>>

\* the parts of the state no step of the ShareProcessor touches
spFrame == <<conn, clients, jobId, currentBlockTemplate, polls, blockSubmits,
             pmVars, ppVars, plVars, lrVars, tpVars>>

\* a processShare call suspended at an await: pc names the await, found holds the
\* array the storage query of that await resolves to
Call(share, at, found) == [share |-> share, pc |-> at, found |-> found]

RemoveAt(seq, k) == SubSeq(seq, 1, k - 1) \o SubSeq(seq, k + 1, Len(seq))

\* processShare(share) is called: the share is pushed by saveShare before the
\* first await gives control back. Every await of a call is on a promise that
\* is already resolved, so a call that has resumed ends before the next message
\* is handled: a new call finds the earlier ones of its turn at their first await.
ProcessShare(share) ==
  /\ Len(calls) < MaxInFlight
  /\ \A i \in 1..Len(calls) : calls[i].pc = "saveShare"
  /\ Len(shares) < MaxLedger
  /\ share.timestamp <= now
  /\ shares' = SaveShare(shares, share)
  /\ handled' = Append(handled, share)
  /\ calls' = Append(calls, Call(share, "saveShare", <<>>))
  /\ wire' = <<>>
  /\ events' = <<>>
  /\ last' = Ran("processShare", 0, 0)
  /\ UNCHANGED <<now, spFrame>>

\* after `await this.storage.saveShare`: calculateHashrates reads the clock and
\* queries the worker's valid shares of the last 10 minutes
CalculateHashrates(k) ==
  /\ k <= Len(calls)
  /\ calls[k].pc = "saveShare"
  /\ calls' = [calls EXCEPT ![k] =
                 Call(@.share, "getWorkerValidShares",
                      GetWorkerValidShares(shares, @.share.workerId,
                                           now - HashrateWindow, now))]
  /\ wire' = <<>>
  /\ events' = <<>>
  /\ last' = Ran("calculateHashrates", k, 0)
  /\ UNCHANGED <<shares, now, handled, spFrame>>

\* the hashrate:updated event of calculateHashrates, none for an empty array
HashrateUpdated(workerId, found) ==
  IF found = <<>> THEN <<>>
  ELSE <<Emit("hashrate:updated",
              [workerId |-> workerId,
               hashrate |-> Hashrate(TotalDifficulty(found), WindowSeconds),
               shares |-> Len(found)])>>

\* after `await this.storage.getWorkerValidShares`: calculateHashrates emits and returns
HashratesDone(k) ==
  /\ k <= Len(calls)
  /\ calls[k].pc = "getWorkerValidShares"
  /\ events' = HashrateUpdated(calls[k].share.workerId, calls[k].found)
  /\ calls' = [calls EXCEPT ![k] = Call(@.share, "calculateHashrates", <<>>)]
  /\ wire' = <<>>
  /\ last' = Ran("hashratesDone", k, 0)
  /\ UNCHANGED <<shares, now, handled, spFrame>>

\* after `await this.calculateHashrates`, for a share with isBlock:
\* calculateBlockRewards reads the clock and queries the pool's valid shares of
\* the last hour
CalculateBlockRewards(k) ==
  /\ k <= Len(calls)
  /\ calls[k].pc = "calculateHashrates"
  /\ TriggersRewardSplit(calls[k].share)
  /\ calls' = [calls EXCEPT ![k] =
                 Call(@.share, "getPoolValidShares",
                      GetPoolValidShares(shares, now - RewardWindow, now))]
  /\ wire' = <<>>
  /\ events' = <<>>
  /\ last' = Ran("calculateBlockRewards", k, 0)
  /\ UNCHANGED <<shares, now, handled, spFrame>>

\* mutant: an empty array is split like any other
SkipsDistribution_Never(allShares) == FALSE

\* if (allShares.length === 0) { logger.warn(..); return; }
SkipsDistribution(allShares) == allShares = <<>>

\* the reward:calculated event of calculateBlockRewards
RewardCalculated(allShares) ==
  IF SkipsDistribution(allShares) THEN <<>>
  ELSE <<Emit("reward:calculated",
              [totalReward |-> blockReward,
               poolFee |-> PoolFee,
               workerRewards |-> WorkerRewards(allShares)])>>

\* after `await this.storage.getPoolValidShares`: calculateBlockRewards emits and returns
RewardsDone(k) ==
  /\ k <= Len(calls)
  /\ calls[k].pc = "getPoolValidShares"
  /\ events' = RewardCalculated(calls[k].found)
  /\ calls' = [calls EXCEPT ![k] = Call(@.share, "calculateBlockRewards", <<>>)]
  /\ wire' = <<>>
  /\ last' = Ran("rewardsDone", k, 0)
  /\ UNCHANGED <<shares, now, handled, spFrame>>

\* the end of processShare: share:processed is emitted and the call settles
ShareProcessed(k) ==
  /\ k <= Len(calls)
  /\ \/ calls[k].pc = "calculateBlockRewards"
     \/ calls[k].pc = "calculateHashrates" /\ ~TriggersRewardSplit(calls[k].share)
  /\ events' = <<Emit("share:processed",
                      [workerId |-> calls[k].share.workerId,
                       isValid |-> calls[k].share.isValid,
                       difficulty |-> calls[k].share.difficulty,
                       timestamp |-> calls[k].share.timestamp])>>
  /\ calls' = RemoveAt(calls, k)
  /\ wire' = <<>>
  /\ last' = Ran("shareProcessed", k, 0)
  /\ UNCHANGED <<shares, now, handled, spFrame>>

\* calculatePoolHashrate(), called by the 30 s statistics timer: the value it
\* returns is put in last (0 for no share)
CalculatePoolHashrate ==
  /\ wire' = <<>>
  /\ events' = <<>>
  /\ last' = Ran("calculatePoolHashrate", 0,
                 Hashrate(TotalDifficulty(GetPoolValidShares(shares, now - HashrateWindow, now)),
                          WindowSeconds))
  /\ UNCHANGED <<shares, now, calls, handled, spFrame>>

\* time passes between two turns, when no call is in flight
Tick ==
  /\ calls = <<>>
  /\ \E t \in Instants :
        /\ t > now
        /\ \A u \in Instants : u > now => t <= u
        /\ now' = t
  /\ wire' = <<>>
  /\ events' = <<>>
  /\ last' = Ran("tick", 0, 0)
  /\ UNCHANGED <<shares, calls, handled, spFrame>>

NextSP ==
  \/ \E share \in Shares : ProcessShare(share)
  \/ \E k \in 1..MaxInFlight :
       \/ CalculateHashrates(k)
       \/ HashratesDone(k)
       \/ CalculateBlockRewards(k)
       \/ RewardsDone(k)
       \/ ShareProcessed(k)
  \/ CalculatePoolHashrate
  \/ Tick

\* ======================================================================
\* Part F. StratumClient.handleData: the line reader of one session
\* ======================================================================

MaxStream == 5         \* bytes a session receives
MaxChunk == 3          \* bytes of one 'data' event

\* the bytes of the stream: two printable ASCII characters, the space, the
\* newline, and the two bytes of the UTF-8 encoding of a character above U+007F
\* (as in a worker name)
Bytes == {"x", "y", "SP", "LF", "C3", "A9"}

\* the Buffers a 'data' event can carry
Chunks == UNION {[1..k -> Bytes] : k \in 1..MaxChunk}

\* Buffer.toString(): UTF-8 decoding of the bytes of one Buffer. The two bytes
\* of a character give the character; a lead byte without its continuation
\* byte, and a continuation byte without its lead byte, give U+FFFD each.
RECURSIVE BufferToString(_)
BufferToString(bytes) ==
  IF bytes = <<>> THEN <<>>
  ELSE IF Head(bytes) = "C3"
       THEN IF Len(bytes) = 1 THEN <<"U+FFFD">>
            ELSE IF bytes[2] = "A9"
                 THEN <<"U+00E9">> \o BufferToString(SubSeq(bytes, 3, Len(bytes)))
                 ELSE <<"U+FFFD">> \o BufferToString(Tail(bytes))
       ELSE IF Head(bytes) = "A9"
            THEN <<"U+FFFD">> \o BufferToString(Tail(bytes))
            ELSE <<Head(bytes)>> \o BufferToString(Tail(bytes))

\* the bytes are the beginning of well-formed UTF-8: every lead byte but a last
\* one is followed by its continuation byte, which stands nowhere else
RECURSIVE WellFormed(_)
WellFormed(bytes) ==
  IF bytes = <<>> THEN TRUE
  ELSE IF Head(bytes) = "C3"
       THEN IF Len(bytes) = 1 THEN TRUE
            ELSE bytes[2] = "A9" /\ WellFormed(SubSeq(bytes, 3, Len(bytes)))
       ELSE Head(bytes) # "A9" /\ WellFormed(Tail(bytes))

\* this.buffer.indexOf('\n'), 1-based; 0 for -1
IndexOfNewline(text) ==
  IF \E i \in 1..Len(text) : text[i] = "LF"
  THEN CHOOSE i \in 1..Len(text) : text[i] = "LF" /\ \A j \in 1..(i - 1) : text[j] # "LF"
  ELSE 0

\* the messages the while loop of handleData cuts off the buffer, in order
RECURSIVE Messages(_)
Messages(text) ==
  LET newlineIndex == IndexOfNewline(text)
  IN  IF newlineIndex = 0 THEN <<>>
      ELSE <<SubSeq(text, 1, newlineIndex - 1)>>
           \o Messages(SubSeq(text, newlineIndex + 1, Len(text)))

\* what the while loop of handleData leaves in the buffer
RECURSIVE Remainder(_)
Remainder(text) ==
  LET newlineIndex == IndexOfNewline(text)
  IN  IF newlineIndex = 0 THEN text
      ELSE Remainder(SubSeq(text, newlineIndex + 1, Len(text)))

\* message.trim() is not the empty string
TrimIsTruthy(message) == \E i \in 1..Len(message) : message[i] # "SP"

InitLR ==
  /\ stream = <<>>
  /\ buffer = <<>>
  /\ handledLines = <<>>

\* the socket's 'data' with the Buffer data: handleData appends data.toString()
\* to the buffer and calls handleMessage for every message of the buffer whose
\* trim() is not empty
HandleData(data) ==
  /\ Len(stream) + Len(data) <= MaxStream
  /\ WellFormed(stream \o data)
  /\ stream' = stream \o data
  /\ LET text == buffer \o BufferToString(data)
     IN  /\ handledLines' = handledLines \o SelectSeq(Messages(text), TrimIsTruthy)
         /\ buffer' = Remainder(text)
  /\ wire' = <<>>
  /\ events' = <<>>
  /\ last' = Ran("data", 0, Len(data))
  /\ UNCHANGED <<conn, clients, jobId, currentBlockTemplate, polls, blockSubmits, shares,
                 pmVars, ppVars, plVars, spVars, tpVars>>

NextLR == \E data \in Chunks : HandleData(data)

\* ======================================================================
\* Part G. The template poller with getBlockTemplate calls that overlap
\* ======================================================================

MaxTip == 3            \* blocks the node's chain reaches
MaxIssued == 3         \* getBlockTemplate calls the timer makes
MaxOverlap == 2        \* getBlockTemplate calls in flight at one time

InitTP ==
  /\ tip = 1
  /\ issued = 0
  /\ pending = {}
  /\ appliedSeq = 0

\* the node connects a block: templates it builds from now on extend that block
NewBlock ==
  /\ tip < MaxTip
  /\ tip' = tip + 1
  /\ wire' = <<>>
  /\ events' = <<>>
  /\ last' = Ran("block", 0, tip')
  /\ UNCHANGED <<issued, pending, appliedSeq, conn, clients, jobId, currentBlockTemplate,
                 polls, blockSubmits, shares, pmVars, ppVars, plVars, spVars, lrVars>>

\* the 5 s timer fires: the callback calls getBlockTemplate() and is suspended
\* at the await, whether or not an earlier call is still in flight
TimerPoll ==
  /\ issued < MaxIssued
  /\ Cardinality(pending) < MaxOverlap
  /\ issued' = issued + 1
  /\ pending' = pending \cup {[seq |-> issued', since |-> tip]}
  /\ wire' = <<>>
  /\ events' = <<>>
  /\ last' = Ran("poll", 0, issued')
  /\ UNCHANGED <<tip, appliedSeq, conn, clients, jobId, currentBlockTemplate,
                 polls, blockSubmits, shares, pmVars, ppVars, plVars, spVars, lrVars>>

\* the template of a block hash, as getBlockTemplate returns it
TemplateOn(hash) == [held |-> TRUE, previousblockhash |-> hash, curtime |-> 0]

\* the await of call p resolves, with a template the node built on the block
\* that was its best one at some time between the call and now: the callback
\* goes on with the test for a new template, whichever call it belongs to
TemplateArrives(p, hash) ==
  /\ p \in pending
  /\ hash \in p.since..tip
  /\ pending' = pending \ {p}
  /\ IF IsNewTemplate(currentBlockTemplate, TemplateOn(hash))
     THEN /\ currentBlockTemplate' = TemplateOn(hash)
          /\ jobId' = jobId + 1
          /\ wire' = BroadcastJob(clients, conn, jobId', TemplateOn(hash))
          /\ appliedSeq' = p.seq
          /\ last' = Ran("minted", 0, p.seq)
     ELSE /\ wire' = <<>>
          /\ last' = Ran("same", 0, p.seq)
          /\ UNCHANGED <<jobId, currentBlockTemplate, appliedSeq>>
  /\ events' = <<>>
  /\ UNCHANGED <<tip, issued, conn, clients, polls, blockSubmits, shares,
                 pmVars, ppVars, plVars, spVars, lrVars>>

\* the await of call p rejects: the catch logs
TemplateThrows(p) ==
  /\ p \in pending
  /\ pending' = pending \ {p}
  /\ wire' = <<>>
  /\ events' = <<>>
  /\ last' = Ran("pollThrew", 0, p.seq)
  /\ UNCHANGED <<tip, issued, appliedSeq, conn, clients, jobId, currentBlockTemplate,
                 polls, blockSubmits, shares, pmVars, ppVars, plVars, spVars, lrVars>>

\* the calls that can be in flight
PendingCalls == [seq : 1..MaxIssued, since : 1..MaxTip]

NextTP ==
  \/ NewBlock
  \/ TimerPoll
  \/ \E p \in PendingCalls, hash \in 1..MaxTip : TemplateArrives(p, hash)
  \/ \E p \in PendingCalls : TemplateThrows(p)

Init == InitPM /\ InitPP /\ InitST /\ InitPL /\ InitSP /\ InitLR /\ InitTP

SpecPayoutManager == Init /\ [][NextPM]_vars

SpecPayoutProcessor == Init /\ [][NextPP]_vars

SpecStratum == Init /\ [][NextST]_vars

SpecPollers == Init /\ [][NextPL]_vars

SpecShareProcessor == Init /\ [][NextSP]_vars

SpecLineReader == Init /\ [][NextLR]_vars

SpecTemplatePolls == Init /\ [][NextTP]_vars

\* ====================================================================
\* Claims about the PayoutManager (checked under SpecPayoutManager)
\* ====================================================================
Stored == 1..Len(payouts)

\* a processPayouts call that is past the guard and has not returned
InRun(c) == pc[c] \in {"getPending", "mark", "create", "send", "complete", "fail", "batchDone"}

\* the call has built its batches
HasBatches(c) == pc[c] \in {"mark", "create", "send", "complete", "fail", "batchDone"}

LegalTransitions == {<<PENDING, PROCESSING>>, <<PROCESSING, COMPLETED>>, <<PROCESSING, FAILED>>}

\* C1: the status of every payout only ever moves pending -> processing ->
\* completed, or pending -> processing -> failed: every change of a stored
\* payout's status is one of these three steps.
C1_StatusMonotone ==
  [][\A i \in Stored :
       payouts'[i].status # payouts[i].status =>
         <<payouts[i].status, payouts'[i].status>> \in LegalTransitions]_vars

\* C2: no double-spend: every payout is a member of the batch of at most one
\* broadcast transaction.
C2_NoDoubleSpend ==
  \A i \in Stored : Cardinality({t \in 1..Len(txs) : i \in txs[t].members}) <= 1

\* the sum of the amounts of a set of stored payouts
RECURSIVE SumAmounts(_)
SumAmounts(S) ==
  IF S = {} THEN 0
  ELSE LET i == CHOOSE j \in S : TRUE IN payouts[i].amount + SumAmounts(S \ {i})

\* C3: no lost credit inside a batch: the outputs of every broadcast transaction
\* total the sum of the amounts of the payouts of its batch.
C3_OutputsPayEveryMember ==
  \A t \in 1..Len(txs) :
     SumFun(txs[t].outputs, DOMAIN txs[t].outputs) = SumAmounts(txs[t].members)

\* C4: single-flight: at most one processPayouts run is in progress at any time,
\* and a call entered while a run is in progress returns 0 at once, changes no
\* payout, makes no node call, emits nothing and leaves nothing behind for later.
C4_SingleFlight ==
  /\ [](Cardinality({c \in Callers : InRun(c)}) <= 1)
  /\ [][\A c \in Callers :
          (pc[c] = "idle" /\ pc'[c] # "idle" /\ \E d \in Callers : InRun(d)) =>
             /\ pc'[c] = "returned"
             /\ run'[c] = [IdleRun EXCEPT !.skipped = TRUE, !.ret = 0]
             /\ \A d \in Callers \ {c} : pc'[d] = pc[d] /\ run'[d] = run[d]
             /\ UNCHANGED <<payouts, txs, emitted, isProcessing, creating>>]_vars

\* C4 witness: a trigger has been skipped while a run is suspended at a node call
C4_Witness ==
  \E c, d \in Callers :
     /\ pc[c] \in {"create", "send"}
     /\ pc[d] = "returned" /\ run[d].skipped /\ run[d].ret = 0

\* the outcome of a batch whose transaction failed, for the call that ran it
FailedBatchDone(c) == pc[c] = "batchDone" /\ run[c].err # NoErr
SentBatchDone(c) == pc[c] = "batchDone" /\ run[c].err = NoErr

\* C6: when the transaction of a batch fails, every member of the batch ends in
\* failed and payout:failed has been emitted exactly once for it, with the one
\* failure reason of the batch.
C6_FailedBatchAllFailed ==
  \A c \in Callers : FailedBatchDone(c) =>
     \A i \in Range(Batch(c)) :
        /\ payouts[i].status = FAILED
        /\ emitted[i].failed = 1
        /\ emitted[i].errors = {run[c].err}
        /\ emitted[i].completed = 0

\* C7: when the transaction of a batch is broadcast, every member of the batch
\* ends in completed with the transaction id of the broadcast, and
\* payout:completed has been emitted exactly once for it.
C7_SentBatchAllCompleted ==
  \A c \in Callers : SentBatchDone(c) =>
     \A i \in Range(Batch(c)) :
        /\ payouts[i].status = COMPLETED
        /\ payouts[i].transactionId = run[c].txid
        /\ emitted[i].completed = 1
        /\ emitted[i].txids = {run[c].txid}
        /\ emitted[i].failed = 0

\* C9: createPayout throws exactly when the amount is below minPayout, and then
\* stores nothing and emits nothing; otherwise it stores exactly one new payout,
\* pending, with the amount and user asked for, and emits payout:created for it
\* exactly once, when the call resumes.
C9_CreatePayout ==
  /\ [](\A call \in creating : (call.amount < minPayout) <=> (call.idx = 0))
  /\ [](\A i \in Stored :
          emitted[i].created = (IF \E call \in creating : call.idx = i THEN 0 ELSE 1))
  /\ [][\A call \in creating' \ creating :
          IF call.idx = 0
          THEN payouts' = payouts /\ emitted' = emitted
          ELSE /\ Len(payouts') = Len(payouts) + 1
               /\ call.idx = Len(payouts')
               /\ SubSeq(payouts', 1, Len(payouts)) = payouts
               /\ payouts'[call.idx].status = PENDING
               /\ payouts'[call.idx].amount = call.amount
               /\ payouts'[call.idx].userId = call.userId
               /\ SubSeq(emitted', 1, Len(payouts)) = emitted]_vars
  /\ [][\A call \in creating \ creating' :
          /\ payouts' = payouts
          /\ IF call.idx = 0 THEN emitted' = emitted
             ELSE emitted' = [emitted EXCEPT ![call.idx].created = 1]]_vars

\* C9 witness: one call has thrown below the threshold with a payout of an earlier
\* call stored and announced
C9_Witness ==
  /\ \E call \in creating : call.idx = 0 /\ call.amount < minPayout
  /\ \E i \in Stored : payouts[i].amount >= minPayout /\ emitted[i].created = 1

\* C10: the batches of a run partition the payouts that were pending when the run
\* took its snapshot: in order, each in exactly one batch, no batch empty or
\* larger than maxPayoutsPerBatch, and every member still pending when the
\* batches are built.
C10_BatchesPartitionPending ==
  /\ [](\A c \in Callers : HasBatches(c) =>
          /\ Flatten(run[c].batches) = run[c].pending
          /\ \A b \in 1..Len(run[c].batches) :
               Len(run[c].batches[b]) \in 1..maxPayoutsPerBatch)
  /\ [][\A c \in Callers :
          /\ (pc[c] = "idle" /\ pc'[c] = "getPending") =>
                run'[c].pending = GetPendingPayouts(payouts)
          /\ (pc[c] = "getPending" /\ pc'[c] = "mark") =>
                /\ \A k \in 1..Len(run[c].pending) :
                      payouts[run[c].pending[k]].status = PENDING
                /\ \A k, l \in 1..Len(run[c].pending) :
                      k < l => run[c].pending[k] < run[c].pending[l]
                /\ \A i \in 1..run[c].snapLen :
                      payouts[i].status = PENDING => i \in Range(run[c].pending)]_vars

\* C10 witness: a run with a full batch and a second batch
C10_Witness ==
  \E c \in Callers :
     /\ HasBatches(c)
     /\ Len(run[c].batches) = 2
     /\ Len(run[c].batches[1]) = maxPayoutsPerBatch


\* ====================================================================
\* Claims about the PayoutProcessor
\* ====================================================================

\* C5: a scheduled payout cycle and a manual payout never perform payout work at
\* the same time: the manual trigger enters the guard of the scheduled cycle, so
\* no manual processUserPayout is in flight while a scheduled one is.
C5_OneTriggerWorks ==
  \A u \in PPUsers, v \in PPUsers :
     ~(PayoutWork(<<"scheduled", u>>) /\ PayoutWork(<<"manual", v>>))

\* C8: the payouts created for a miner, whatever their status, never total more
\* than the credit the miner has earned.
C8_PayoutsWithinCredit ==
  \A u \in PPUsers : TotalCreated(dbPayouts, u) <= earned[u]


\* ====================================================================
\* Claims about the StratumServer (checked under SpecStratum)
\* ====================================================================
OpenConns == {c \in Conns : conn[c].open}

\* C11: the extraNonce1 values of the sessions open at one time are pairwise
\* distinct.
C11_ExtraNonce1Unique ==
  \A c \in OpenConns, d \in OpenConns :
     c # d => conn[c].extraNonce1 # conn[d].extraNonce1

\* C12: jobId never decreases and moves by one exactly when the Job is replaced;
\* the Job is replaced only by a polled template whose previousblockhash differs
\* from the held one (or when none is held); a poll that returns the held
\* previousblockhash changes neither the Job nor jobId and sends nothing.
C12_JobMinting ==
  /\ [][/\ jobId' \in {jobId, jobId + 1}
        /\ (jobId' = jobId + 1) <=> (currentBlockTemplate' # currentBlockTemplate)
        /\ (jobId' = jobId + 1) =>
              /\ currentBlockTemplate'.held
              /\ \/ ~currentBlockTemplate.held
                 \/ currentBlockTemplate'.previousblockhash #
                       currentBlockTemplate.previousblockhash]_vars
  /\ [][\A blockTemplate \in Templates :
          (/\ PollReturns(blockTemplate)
           /\ currentBlockTemplate.held
           /\ blockTemplate.previousblockhash = currentBlockTemplate.previousblockhash)
          => (UNCHANGED <<jobId, currentBlockTemplate>> /\ wire' = <<>>)]_vars

\* C12 witness: a second Job has been minted and broadcast to a subscribed session
C12_Witness ==
  /\ last.op = "minted"
  /\ jobId >= 2
  /\ wire # <<>>


\* Every step records in last the handler that ran, its connection and the job
\* number it was given, so a formula about one handler first tests last'.op and
\* then looks only at the inputs that agree with last'.
StepConns == {c \in Conns : c = last'.conn}
StepJobRefs == {jobRef \in JobRefs : jobRef[2] = last'.arg}

\* the Share the last mining.submit put in the ledger
LastShare(ledger) == ledger[Len(ledger)]

\* the response shareResponse(accepted) to connection c, alone on the wire
ShareResponse(c, accepted) == <<[to |-> c, method |-> "mining.submit", arg |-> accepted]>>

\* how many events of a type a step emitted
Emitted(ev, type) == Cardinality({i \in 1..Len(ev) : ev[i].type = type})

\* C13: a mining.submit that references the Job minted just before the current
\* one is not turned down as stale: with work that passes the proof-of-work
\* check it is accepted, as it would be for the current Job.
C13_GraceWindow ==
  [][last'.op = "submit" =>
     \A c \in StepConns, workername \in Workers, jobRef \in StepJobRefs, meets \in BOOLEAN :
       (/\ jobId >= 2
        /\ jobRef = JobString(jobId - 1)
        /\ Submit(c, workername, jobRef, TRUE, meets))
       => (LastShare(shares').isValid /\ wire' = ShareResponse(c, TRUE))]_vars

\* C14: a mining.submit that references a job id two or more generations older
\* than the current Job is rejected: the miner is told accepted=false, the Share
\* is recorded with valid=false, no block is found, and every session stays as
\* it was, open and registered.
C14_StaleRejected ==
  [][last'.op = "submit" =>
     \A c \in StepConns, workername \in Workers, jobRef \in StepJobRefs,
        pow \in BOOLEAN, meets \in BOOLEAN :
       (jobRef[2] + 2 <= jobId /\ Submit(c, workername, jobRef, pow, meets))
       => /\ shares' = Append(shares, ShareData(workername, FALSE))
          /\ wire' = ShareResponse(c, FALSE)
          /\ Emitted(events', "block:found") = 0
          /\ conn' = conn /\ conn'[c].open
          /\ clients' = clients]_vars

\* C14 witness: an authorized, subscribed session has just submitted against a
\* Job two generations old and has its rejected Share in the ledger
C14_Witness ==
  /\ last.op = "submit"
  /\ last.arg >= 1 /\ last.arg + 2 <= jobId
  /\ conn[last.conn].isSubscribed /\ conn[last.conn].isAuthorized
  /\ Registered(clients, last.conn)
  /\ ~LastShare(shares).isValid
  /\ wire = ShareResponse(last.conn, FALSE)

\* C15: every mining.submit message puts exactly one Share in the ledger and
\* sends exactly one response, whose accepted flag is the Share's valid flag.
C15_OneShareOneResponse ==
  [][last'.op \in {"submit", "threw"} =>
     \A c \in StepConns :
       (\/ BadParams(c, "mining.submit")
        \/ \E workername \in Workers, jobRef \in StepJobRefs,
              pow \in BOOLEAN, meets \in BOOLEAN :
              Submit(c, workername, jobRef, pow, meets))
       => /\ Len(shares') = Len(shares) + 1
          /\ SubSeq(shares', 1, Len(shares)) = shares
          /\ wire' = ShareResponse(c, LastShare(shares').isValid)]_vars

\* C16: a mining.submit from a session that is not authorized is never
\* credited: its Share is not valid and the miner is not told accepted=true.
C16_UnauthorizedNotCredited ==
  [][last'.op = "submit" =>
     \A c \in StepConns, workername \in Workers, jobRef \in StepJobRefs,
        pow \in BOOLEAN, meets \in BOOLEAN :
       (~conn[c].isAuthorized /\ Submit(c, workername, jobRef, pow, meets))
       => (~LastShare(shares').isValid /\ wire' = ShareResponse(c, FALSE))]_vars

\* C17: every share for which block:found is emitted is in the ledger as a Share
\* with isBlock=true, which is what triggers the reward split of its block.
C17_BlockShareInLedger ==
  [][last'.op = "submit" =>
     \A c \in StepConns, workername \in Workers, jobRef \in StepJobRefs,
        pow \in BOOLEAN, meets \in BOOLEAN :
       (Submit(c, workername, jobRef, pow, meets) /\ Emitted(events', "block:found") > 0)
       => TriggersRewardSplit(LastShare(shares'))]_vars

\* C18: for an accepted share that meets the network target submitBlock is called
\* once and block:found is emitted once; for any other share neither happens;
\* when submitBlock settles, accepted, refused or thrown, no call is made again
\* and nothing is emitted; no other step calls submitBlock or emits block:found.
C18_BlockSubmittedOnce ==
  [][/\ last'.op = "submit" =>
        \A c \in StepConns, workername \in Workers, jobRef \in StepJobRefs,
           pow \in BOOLEAN, meets \in BOOLEAN :
          Submit(c, workername, jobRef, pow, meets) =>
             IF LastShare(shares').isValid /\ meets
             THEN blockSubmits' = blockSubmits + 1 /\ Emitted(events', "block:found") = 1
             ELSE blockSubmits' = blockSubmits /\ Emitted(events', "block:found") = 0
     /\ last'.op \in SubmitBlockOutcomes =>
        \A outcome \in SubmitBlockOutcomes :
          SubmitBlockSettles(outcome) =>
             /\ blockSubmits' = blockSubmits - 1
             /\ events' = <<>> /\ wire' = <<>>
             /\ shares' = shares
     /\ last'.op # "submit" =>
          /\ blockSubmits' <= blockSubmits
          /\ \A i \in 1..Len(events') : events'[i].type # "block:found"]_vars

\* C18 witness: the submitBlock call of a block-qualifying share has thrown, and
\* no call is left in flight
C18_Witness ==
  /\ last.op = "thrown"
  /\ blockSubmits = 0
  /\ shares # <<>> /\ LastShare(shares).isValid

\* C19: a session is Authorized only once it has subscribed, and while the
\* connection is open subscribed and authorized never go back to false.
C19_SessionStateMachine ==
  /\ [](\A c \in OpenConns : conn[c].isAuthorized => conn[c].isSubscribed)
  /\ [][\A c \in Conns : (conn[c].open /\ conn'[c].open) =>
          /\ conn[c].isSubscribed => conn'[c].isSubscribed
          /\ conn[c].isAuthorized => conn'[c].isAuthorized]_vars

\* C20: a line that is not JSON, or whose method is unknown, is dropped: every
\* session, the active set, the ledger, the Job and the calls in flight are
\* unchanged, nothing is sent or emitted, and the session is still open, so the
\* lines that follow are handled as if the bad line had not come.
C20_BadLineDiscarded ==
  [][last'.op = "discarded" =>
     \A c \in StepConns :
       (BadJson(c) \/ UnknownMethod(c))
       => /\ conn' = conn /\ conn'[c].open
          /\ clients' = clients
          /\ shares' = shares
          /\ events' = <<>> /\ wire' = <<>>
          /\ UNCHANGED <<jobId, currentBlockTemplate, polls, blockSubmits>>]_vars

\* C20 witness: a line has just been dropped on a session that is subscribed,
\* authorized and registered
C20_Witness ==
  /\ last.op = "discarded"
  /\ conn[last.conn].open
  /\ conn[last.conn].isSubscribed /\ conn[last.conn].isAuthorized
  /\ Registered(clients, last.conn)


\* mining.notify for job jid is among the messages msgs, addressed to connection c
Notified(msgs, c, jid) ==
  \E i \in 1..Len(msgs) :
     msgs[i].to = c /\ msgs[i].method = "mining.notify" /\ msgs[i].arg[1] = jid

\* C21: when the socket of a session closes, whatever its state, the session is
\* no longer in the active set afterwards and worker:disconnected is emitted once
\* for it; every other session keeps its state, and is registered after the
\* close exactly when it was before.
C21_CloseRemovesOnlyItself ==
  [][last'.op = "close" =>
     \A c \in StepConns :
       HandleClose(c)
       => /\ ~Registered(clients', c)
          /\ events' = <<Emit("worker:disconnected", conn[c].username)>>
          /\ \A d \in Conns \ {c} :
                /\ conn'[d] = conn[d]
                /\ Registered(clients', d) <=> Registered(clients, d)]_vars

\* C22: a session that subscribes while a Job is held is sent mining.notify for
\* the current jobId in the same step, and a newly minted Job is sent to every
\* open session that has subscribed and to no other session.
C22_SubscribedGetJob ==
  [][/\ last'.op = "subscribe" =>
        \A c \in StepConns :
          (Subscribe(c) /\ currentBlockTemplate.held) => Notified(wire', c, jobId)
     /\ last'.op = "minted" =>
        \A c \in Conns :
          Notified(wire', c, jobId') <=> (conn[c].open /\ conn[c].isSubscribed)]_vars


\* ---------------------------------------------------------------- pollers
\* C23: when getBlockTemplate or getDifficulty throws in a poll cycle, the held
\* Job, jobId, difficulty, every session and the active set are as before and
\* nothing is sent or emitted; the failed call is settled, so the timer calls
\* again; and in every state, whatever failed before, a poll that returns a
\* template with a new previousblockhash (or the first template) mints a Job.
C23_PollFailureSkipsCycle ==
  [][/\ (PollThrows \/ DifficultyThrows) =>
          /\ UNCHANGED <<jobId, currentBlockTemplate, difficulty, conn, clients>>
          /\ wire' = <<>> /\ events' = <<>>
          /\ polls' + diffPolls' = polls + diffPolls - 1
     /\ last'.op \in {"minted", "poll"} =>
        \A blockTemplate \in Templates :
          (/\ PollReturns(blockTemplate)
           /\ \/ ~currentBlockTemplate.held
              \/ currentBlockTemplate.previousblockhash # blockTemplate.previousblockhash)
          => /\ jobId' = jobId + 1
             /\ currentBlockTemplate' = blockTemplate]_vars

\* C23 witness: a getBlockTemplate call has just thrown while a Job is held, a
\* subscribed session is open and the difficulty has been refreshed before
C23_Witness ==
  /\ last.op = "pollThrew"
  /\ jobId >= 1 /\ currentBlockTemplate.held
  /\ difficulty > 1
  /\ \E c \in OpenConns : conn[c].isSubscribed /\ Registered(clients, c)


\* ---- the ShareProcessor claims

\* the reward:calculated events of the last step
RewardEvents == {i \in 1..Len(events) : events[i].type = "reward:calculated"}

\* the smallest exponent among the numbers of a set
MinExponent(nums) == CHOOSE e \in {n.e : n \in nums} : \A n \in nums : e <= n.e

\* the mantissa of a number at a smaller exponent: its exact value in units of 2^e
Scaled(n, e) == n.m * 2^(n.e - e)

\* the exact sum of the amounts of a split, in units of 2^e
RECURSIVE ExactSum(_, _, _)
ExactSum(rewards, workers, e) ==
  IF workers = {} THEN 0
  ELSE LET w == CHOOSE w \in workers : TRUE
       IN  Scaled(rewards[w], e) + ExactSum(rewards, workers \ {w}, e)

\* the amounts of a split add up to totalReward - poolFee exactly
Conserved(split) ==
  LET rewards == split.workerRewards
      nums == {rewards[w] : w \in DOMAIN rewards} \cup {split.totalReward, split.poolFee}
      e == MinExponent(nums)
  IN  ExactSum(rewards, DOMAIN rewards, e) + Scaled(split.poolFee, e)
        = Scaled(split.totalReward, e)

\* C24: in every reward split the per-miner amounts add up to
\* blockReward - poolFee, so that poolFee plus the amounts is the block reward
\* with nothing lost to rounding.
C24_SplitConservesReward ==
  \A i \in RewardEvents : Conserved(events[i].arg)

\* a split was emitted that conserves the reward (difficulty sums 300 and 100)
C24_SplitEmitted ==
  \E i \in RewardEvents :
     /\ Conserved(events[i].arg)
     /\ Cardinality(DOMAIN events[i].arg.workerRewards) = 2

\* the positions of the ledger that hold a valid share of the trailing window of
\* the given length
InTrailingWindow(length) ==
  {i \in 1..Len(shares) :
     /\ shares[i].isValid
     /\ shares[i].timestamp >= now - length
     /\ shares[i].timestamp <= now}

\* the sum of the difficulties of the shares at the given positions of the ledger
RECURSIVE DifficultySum(_)
DifficultySum(positions) ==
  IF positions = {} THEN 0
  ELSE LET i == CHOOSE i \in positions : TRUE
       IN  shares[i].difficulty + DifficultySum(positions \ {i})

\* the positions of window R that hold a share of the miner
MinerInR(workerId) == {i \in InTrailingWindow(RewardWindow) : shares[i].workerId = workerId}

\* 4.640625 and 1.546875
Amount_300_of_400 == RoundToFloat(297, -6, FALSE)
Amount_100_of_400 == RoundToFloat(99, -6, FALSE)

\* C25: a reward split holds exactly the miners that have a valid share in the
\* reward window R, each with (blockReward - F) * (its difficulty sum in R / the
\* difficulty sum of R), F = blockReward * feePercent / 100; invalid shares and
\* shares outside R count for nothing. With fee 1 %, reward 6.25 and sums 300
\* and 100 the amounts are 4.640625 and 1.546875.
C25_SplitIsProportional ==
  \A i \in RewardEvents :
     LET rewards == events[i].arg.workerRewards
         F == FMul(blockReward, FDiv(poolFeePercent, FromInt(100)))
     IN  /\ DOMAIN rewards = {w \in Miners : MinerInR(w) # {}}
         /\ events[i].arg.poolFee = F
         /\ \A w \in DOMAIN rewards :
               rewards[w] = FMul(FSub(blockReward, F),
                                 FDiv(FromInt(DifficultySum(MinerInR(w))),
                                      FromInt(DifficultySum(InTrailingWindow(RewardWindow)))))
         /\ \A w \in DOMAIN rewards :
               /\ DifficultySum(InTrailingWindow(RewardWindow)) = 400
               /\ DifficultySum(MinerInR(w)) = 300
               => /\ rewards[w] = Amount_300_of_400
                  /\ \A v \in DOMAIN rewards \ {w} : rewards[v] = Amount_100_of_400

\* a split was emitted while the ledger held, next to the share of the one miner
\* of the split, a share of the other miner that is invalid or older than R
C25_Witness ==
  /\ RewardEvents # {}
  /\ \E w \in Miners :
        /\ \A i \in RewardEvents : DOMAIN events[i].arg.workerRewards = {w}
        /\ \E j \in 1..Len(shares) :
              /\ shares[j].workerId # w
              /\ ~shares[j].isValid \/ shares[j].timestamp < now - RewardWindow

\* the calls in flight that are suspended at the given await
CallsAt(cs, at) == Cardinality({k \in 1..Len(cs) : cs[k].pc = at})

\* C26: when the reward window R holds no share at the time the split of a
\* block share is computed, the distribution is skipped: no reward:calculated
\* is emitted, so no miner is credited, and the call goes on to its end without
\* computing the split a second time (a call enters calculateBlockRewards only
\* from the await of calculateHashrates).
C26_EmptyWindowSkipsSplit ==
  [][/\ last'.op = "rewardsDone" =>
          \A k \in 1..MaxInFlight :
             (RewardsDone(k) /\ InTrailingWindow(RewardWindow) = {})
             => /\ events' = <<>>
                /\ calls'[k].pc = "calculateBlockRewards"
                /\ Len(calls') = Len(calls)
     /\ InTrailingWindow(RewardWindow) = {} => RewardEvents' = {}
     /\ CallsAt(calls', "getPoolValidShares") > CallsAt(calls, "getPoolValidShares")
          => CallsAt(calls', "calculateHashrates") < CallsAt(calls, "calculateHashrates")]_vars

\* the split of a block share has just been skipped for an empty window R
C26_Witness ==
  /\ last.op = "rewardsDone"
  /\ events = <<>>
  /\ InTrailingWindow(RewardWindow) = {}
  /\ last.conn <= Len(calls)
  /\ calls[last.conn].pc = "calculateBlockRewards"
  /\ calls[last.conn].share.isBlock

\* the hashrate:updated events of the last step
HashrateEvents == {i \in 1..Len(events) : events[i].type = "hashrate:updated"}

\* the positions of the trailing hashrate window that hold a share of the miner
MinerInH(workerId) == {i \in InTrailingWindow(HashrateWindow) : shares[i].workerId = workerId}

\* what a share adds to the difficulty sum of its miner's hashrate window
Contribution(share) ==
  IF share.isValid /\ share.timestamp >= now - HashrateWindow /\ share.timestamp <= now
  THEN share.difficulty ELSE 0

\* C27: a submission handled a second time is recorded as a second Share, equal
\* to the first or not (there is no deduplication): the ledger grows by exactly
\* that Share and keeps the others. The hashrate reported for a miner is a
\* function of the recorded Shares and the window only, so that the replay adds
\* its own difficulty once more to the miner's sum.
C27_ReplayIsRecordedAgain ==
  [][/\ last'.op = "processShare" =>
          \A share \in Shares :
             ProcessShare(share)
             => /\ Len(shares') = Len(shares) + 1
                /\ shares'[Len(shares')] = share
                /\ \A i \in 1..Len(shares) : shares'[i] = shares[i]
                /\ DifficultySum(MinerInH(share.workerId))'
                     = DifficultySum(MinerInH(share.workerId)) + Contribution(share)
     /\ \A i \in HashrateEvents' :
           LET update == events'[i].arg
           IN  /\ update.hashrate.difficulty = DifficultySum(MinerInH(update.workerId))
               /\ update.shares = Cardinality(MinerInH(update.workerId))]_vars

\* a share was recorded twice and the hashrate reported for its miner counts both
C27_Witness ==
  /\ Len(shares) = 2
  /\ shares[1] = shares[2]
  /\ \E i \in HashrateEvents :
        /\ events[i].arg.workerId = shares[1].workerId
        /\ events[i].arg.shares = 2
        /\ events[i].arg.hashrate.difficulty = 2 * shares[1].difficulty

\* 2^32 hashes, in units of 64 hashes
TwoPow32 == 2^26

\* difficultySum * 2^32 / 600
HashrateByTwoPow32(difficultySum) ==
  [difficulty |-> difficultySum, perDifficulty |-> TwoPow32, seconds |-> WindowSeconds]

\* two hashrates over the same sum and the same seconds are the same number
SameHashrate(a, b) ==
  /\ a.difficulty = b.difficulty
  /\ a.seconds = b.seconds
  /\ a.difficulty = 0 \/ a.perDifficulty = b.perDifficulty

\* C28: the hashrate of a hashrate:updated event, and the value
\* calculatePoolHashrate returns, is the difficulty sum of the valid shares of
\* the trailing 10-minute window (of the miner, of the pool) times 2^32 / 600.
C28_HashrateIsSumTimesTwoPow32 ==
  /\ \A i \in HashrateEvents :
        SameHashrate(events[i].arg.hashrate,
                     HashrateByTwoPow32(DifficultySum(MinerInH(events[i].arg.workerId))))
  /\ last.op = "calculatePoolHashrate"
       => SameHashrate(last.arg,
                       HashrateByTwoPow32(DifficultySum(InTrailingWindow(HashrateWindow))))

\* a share stamped with the current time: one that has just been submitted
IsNew(share) == share.timestamp = now

\* C29: each time a new valid share of a miner is processed, calculateHashrates
\* emits one hashrate:updated for that miner, computed from an array of shares
\* that holds the new share; a call computes the hashrate once; hashrate:updated
\* comes from the processing of a share only, and the pool statistics poll
\* (calculatePoolHashrate) emits none.
C29_NewShareUpdatesHashrate ==
  [][/\ last'.op = "hashratesDone" =>
          \A k \in 1..MaxInFlight :
             (HashratesDone(k) /\ calls[k].share.isValid /\ IsNew(calls[k].share))
             => /\ Len(events') = 1
                /\ events'[1].type = "hashrate:updated"
                /\ events'[1].arg.workerId = calls[k].share.workerId
                /\ \E j \in 1..Len(calls[k].found) : calls[k].found[j] = calls[k].share
                /\ events'[1].arg.hashrate
                     = Hashrate(TotalDifficulty(calls[k].found), WindowSeconds)
                /\ events'[1].arg.hashrate.difficulty >= calls[k].share.difficulty
     /\ CallsAt(calls', "calculateHashrates") > CallsAt(calls, "calculateHashrates")
          => CallsAt(calls', "getWorkerValidShares") < CallsAt(calls, "getWorkerValidShares")
     /\ HashrateEvents' # {} => last'.op = "hashratesDone"
     /\ last'.op = "calculatePoolHashrate" => events' = <<>>]_vars

\* the hashrate of a miner has just been updated for a new valid share, with an
\* older share of the same miner left out of it
C29_Witness ==
  /\ last.op = "hashratesDone"
  /\ last.conn <= Len(calls)
  /\ calls[last.conn].pc = "calculateHashrates"
  /\ calls[last.conn].share.isValid
  /\ IsNew(calls[last.conn].share)
  /\ \E i \in HashrateEvents :
        /\ events[i].arg.workerId = calls[last.conn].share.workerId
        /\ events[i].arg.shares = 1
        /\ events[i].arg.hashrate.difficulty = calls[last.conn].share.difficulty
  /\ \E j \in 1..Len(shares) :
        /\ shares[j].workerId = calls[last.conn].share.workerId
        /\ shares[j].isValid
        /\ shares[j].timestamp < now - HashrateWindow

\* C30: the ledger holds the Shares in the order processShare was called with
\* them, and the Share of every call in flight is in it: when a later share is
\* handled each earlier one is already recorded, whatever the order in which the
\* calls in flight resume; no step other than the call itself writes the ledger.
C30_LedgerInCallOrder ==
  [][/\ shares' = handled'
     /\ \A k \in 1..Len(calls') : \E j \in 1..Len(shares') : shares'[j] = calls'[k].share
     /\ last'.op = "processShare" =>
          /\ \A i \in 1..Len(handled) : shares'[i] = handled[i]
          /\ Len(shares') = Len(handled) + 1
          /\ shares'[Len(shares')] = calls'[Len(calls')].share
     /\ last'.op # "processShare" => shares' = shares]_vars

\* two calls are in flight, the later one ahead of the earlier one, and the
\* ledger holds their two different Shares in the order of the calls
C30_Witness ==
  /\ Len(calls) = 2
  /\ calls[1].pc = "saveShare"
  /\ calls[2].pc = "calculateHashrates"
  /\ calls[1].share # calls[2].share
  /\ shares = <<calls[1].share, calls[2].share>>
  /\ handled = shares

\* ---- the claims about sessions, lines and polls

\* mining.set_difficulty is among the messages msgs, addressed to connection c
DifficultySent(msgs, c) ==
  \E i \in 1..Len(msgs) : msgs[i].to = c /\ msgs[i].method = "mining.set_difficulty"

\* C31: mining.set_difficulty is sent to a session when it connects, and again
\* to every open session in the step that changes the difficulty.
C31_DifficultyAnnounced ==
  [][/\ last'.op = "connect" => \A c \in StepConns : DifficultySent(wire', c)
     /\ difficulty' # difficulty =>
          \A c \in Conns : conn[c].open => DifficultySent(wire', c)]_vars

\* the text of the bytes that have arrived, decoded in one piece
TextArrived == BufferToString(stream)

\* C32: however the bytes of a session arrive in chunks, the messages handled
\* are the complete non-blank lines of the text that has arrived, each once and
\* in the order of arrival, and the buffer keeps the partial line after the last
\* newline.
C32_LinesHandledInOrder ==
  /\ handledLines = SelectSeq(Messages(TextArrived), TrimIsTruthy)
  /\ (stream = <<>> \/ stream[Len(stream)] # "C3") => buffer = Remainder(TextArrived)

\* C36: the templates of overlapping getBlockTemplate calls are applied in the
\* order the calls were made: the template of an earlier call never replaces, as
\* currentBlockTemplate, the template of a later call.
C36_TemplatesAppliedInOrder ==
  [][appliedSeq' >= appliedSeq]_vars

\* C35: the active-session set holds exactly the sessions whose socket is open:
\* a connection is registered from its accept to its own close, whatever the
\* remoteAddress:remotePort identifiers of the other connections.
C35_ActiveSetIsOpenSessions ==
  \A c \in Conns : Registered(clients, c) <=> conn[c].open

\* ---- the PayoutManager claims of the last part

\* a processPayouts call that ran (it was not turned away at the guard) has ended
\* and its promise is about to settle
RunEnded(c) == pc[c] = "returned" /\ ~run[c].skipped

\* C33: when a processPayouts run ends, no payout is left in status processing.
C33_NoPayoutLeftProcessing ==
  \A c \in Callers :
     RunEnded(c) => \A i \in 1..Len(payouts) : payouts[i].status # PROCESSING

\* a run has ended that completed one batch and failed another
C33_Witness ==
  \E c \in Callers :
     /\ RunEnded(c)
     /\ run[c].ret > 0
     /\ \E i \in 1..Len(payouts) : payouts[i].status = COMPLETED
     /\ \E i \in 1..Len(payouts) : payouts[i].status = FAILED

\* the same guard of PayoutProcessor.processAllPendingPayouts, for SpecPayoutProcessor
ProcessorGuardReleased == ppPc = "idle" => ~ppIsProcessing

\* C34: the single-flight guard is always released: isProcessing is false
\* whenever no processPayouts call is executing, and a call is turned away at
\* the guard only while another call is executing.
C34_GuardAlwaysReleased ==
  [][/\ (\A c \in Callers : pc'[c] \in {"idle", "returned"}) => ~isProcessing'
     /\ \A c \in Callers :
           (pc[c] = "idle" /\ pc'[c] = "returned") => \E d \in Callers \ {c} : InRun(d)]_vars

\* a trigger that arrived after a run had ended was admitted: the call holds the
\* guard and has not yet entered a batch, and the ledger holds a payout that an
\* earlier run completed
C34_Witness ==
  \E c \in Callers :
     /\ pc[c] = "getPending"
     /\ isProcessing
     /\ \E i \in 1..Len(payouts) : payouts[i].status = COMPLETED

\* C37: all payouts stored have pairwise distinct ids, so updatePayoutStatus(id, ..)
\* changes exactly the payout it was called for.
C37_PayoutIdsDistinct ==
  \A i, j \in 1..Len(payouts) : payouts[i].id = payouts[j].id => i = j

\* the payouts of all batches of a run, as positions in the ledger
Members(batches) == UNION {Range(batches[b]) : b \in 1..Len(batches)}

\* the step is one of the catch block of the batch call c is in
CatchStep(c) ==
  /\ pc'[c] = "fail"
  /\ pc[c] # "fail" \/ run'[c].k # run[c].k

\* C38: within one run a failed batch does not stop the run: after a batch,
\* failed or not, the next batch is entered; the catch block of a batch leaves
\* the payouts of the other batches as they are; and the return value is the
\* number of payouts the run moved to completed.
C38_FailedBatchIsIsolated ==
  [][\A c \in Callers :
       /\ (pc[c] = "batchDone" /\ pc'[c] # "batchDone" /\ run[c].bi < Len(run[c].batches))
             => (pc'[c] = "mark" /\ run'[c].bi = run[c].bi + 1)
       /\ CatchStep(c)
             => \A i \in 1..Len(payouts) : i \notin Range(Batch(c)) => payouts'[i] = payouts[i]
       /\ (pc[c] = "batchDone" /\ pc'[c] = "returned")
             => run'[c].ret = Cardinality({i \in Members(run[c].batches) :
                                              payouts'[i].status = COMPLETED})]_vars

\* the share of call k is a valid block-finding share
BlockShareAt(cs, k) ==
  /\ cs[k].share.isValid
  /\ cs[k].share.isBlock

IsIn(share, found) == \E i \in 1..Len(found) : found[i] = share

StampedAnyTime(share) == TRUE

\* a step of processShare for the block shares that are Stamped: the share is
\* in the ledger when the split queries it and in the array the split is
\* computed from; the split is emitted with an amount for the share's worker;
\* share:processed is emitted for a call only when its hashrate update is done
\* and, for a share with isBlock, its reward split is done
SplitCountsOwnShare(Stamped(_)) ==
  /\ last'.op = "calculateBlockRewards" =>
        \A k \in 1..MaxInFlight :
           (CalculateBlockRewards(k) /\ BlockShareAt(calls, k) /\ Stamped(calls[k].share))
           => /\ IsIn(calls[k].share, shares)
              /\ IsIn(calls[k].share, calls'[k].found)
  /\ last'.op = "rewardsDone" =>
        \A k \in 1..MaxInFlight :
           (RewardsDone(k) /\ BlockShareAt(calls, k) /\ Stamped(calls[k].share))
           => /\ Len(events') = 1
              /\ events'[1].type = "reward:calculated"
              /\ calls[k].share.workerId \in DOMAIN events'[1].arg.workerRewards
  /\ (\E i \in 1..Len(events') : events'[i].type = "share:processed") =>
        /\ last'.op = "shareProcessed"
        /\ last'.conn <= Len(calls)
        /\ calls[last'.conn].pc = (IF calls[last'.conn].share.isBlock
                                   THEN "calculateBlockRewards"
                                   ELSE "calculateHashrates")

============================================================
